---- MODULE Spec2Model ----
(***************************************************************************)
(* A model of armsim.py: the interpreting simulator for a subset of        *)
(* AArch64.  The machine state is the module-level state of armsim.py;     *)
(* each action is one handler of execute() run from one iteration of the   *)
(* driver loop of run().                                                   *)
(*                                                                         *)
(* Python integers are unbounded; the model's integers are TLC's.  Every   *)
(* operator below is written so that it never builds an intermediate value *)
(* larger than its result, and the programs explored keep register values  *)
(* far inside TLC's range.                                                 *)
(***************************************************************************)
EXTENDS Integers, Sequences, FiniteSets, TLC

VARIABLES asm, pc, reg, mem, n_flag, z_flag, original_break, brk, sym_table,
          label_hit_counts, linked_labels, recursed_labels,
          forbidden_instructions, forbid_recursion, require_recursion,
          forbid_loops, check_dead_code, recursive_labels,
          cycle_count, execute_count, ld_cycle, ld_dst, flag_cycle, last_dst,
          stdout, phase, err, host_calls, replay, lines

\* the static rule variables, set by the host before run()
ruleVars == <<forbidden_instructions, forbid_recursion, require_recursion,
              forbid_loops, check_dead_code, recursive_labels>>

\* what parse() and the host fix before run()
progVars == <<lines, asm, sym_table, linked_labels, original_break, ruleVars>>

\* the hazard state of a load and of a flag writer
ldVars == <<ld_cycle, ld_dst>>
flagVars == <<n_flag, z_flag, flag_cycle>>

vars == <<asm, pc, reg, mem, n_flag, z_flag, original_break, brk, sym_table,
          label_hit_counts, linked_labels, recursed_labels,
          forbidden_instructions, forbid_recursion, require_recursion,
          forbid_loops, check_dead_code, recursive_labels,
          cycle_count, execute_count, ld_cycle, ld_dst, flag_cycle, last_dst,
          stdout, phase, err, host_calls, replay, lines>>

\* what a run shows of the machine: pc, the registers, the flags, memory and
\* the count of executed instructions
Snapshot ==
  [pc |-> pc, reg |-> reg, n_flag |-> n_flag, z_flag |-> z_flag, mem |-> mem,
   execute_count |-> execute_count]

\* when two runs are compared (replay.pass > 0) every step of run() adds the
\* state it leaves to the record of the run
Logged ==
  replay' = IF replay.pass = 0 THEN replay
            ELSE [replay EXCEPT !.trace = Append(@, Snapshot')]

\* a step that calls no host code
Quiet == UNCHANGED host_calls /\ Logged

----------------------------------------------------------------------------
(* Program constants *)

STACK_SIZE == 4096
HEAP_SIZE == 16384
PAGE_SIZE == 4096

SYS_READ == 63
SYS_WRITE == 64
SYS_EXIT == 93
SYS_BRK == 214
SYS_GETRANDOM == 278

RegNames ==
  {"x0", "x1", "x2", "x3", "x4", "x5", "x6", "x7", "x8", "x9", "x10",
   "x11", "x12", "x13", "x14", "x15", "x16", "x17", "x18", "x19", "x20",
   "x21", "x22", "x23", "x24", "x25", "x26", "x27", "x28", "fp", "lr", "sp",
   "xzr"}

----------------------------------------------------------------------------
(* Bounds of the exploration *)

\* longest line typed on standard input for the read syscall
MaxInput == 2
\* most bytes asked of getrandom
MaxRandom == 2
\* brk syscalls in a row in the heap programs
BrkCalls == 3
\* how far below the end of memory the memory programs start their accesses
TopReach == 9

\* instructions between a load and the use of its destination, at most
HazardGap == 2

\* the largest integer the explored runs compute exactly
MaxInt == 1073741823

----------------------------------------------------------------------------
(* Python integers and byte strings *)

Max(a, b) == IF a >= b THEN a ELSE b
Min(a, b) == IF a <= b THEN a ELSE b

RECURSIVE Pow2(_)
Pow2(k) == IF k <= 0 THEN 1 ELSE 2 * Pow2(k - 1)

\* v >> (8 * k), by k floor divisions
RECURSIVE ShiftRight8(_, _)
ShiftRight8(v, k) == IF k = 0 THEN v ELSE ShiftRight8(v \div 256, k - 1)

\* int.to_bytes(v, W, 'little', signed=signed) raises OverflowError unless this holds
CanEncode(v, W, signed) ==
  IF signed
    THEN LET t == ShiftRight8(v, W - 1) IN -128 <= t /\ t <= 127
    ELSE v >= 0 /\ ShiftRight8(v, W) = 0

\* int.to_bytes(v, W, 'little', ...): the W low bytes of the two's complement of v
to_bytes(v, W) == [i \in 1..W |-> ShiftRight8(v, i - 1) % 256]

\* acc * 256 + bs[i] over the bytes from the top; an integer above MaxInt is
\* kept as MaxInt + 1, which stands for all of them
RECURSIVE FoldBytes(_, _, _)
FoldBytes(bs, i, acc) ==
  IF i = 0 THEN acc
  ELSE IF acc > MaxInt \div 256 THEN MaxInt + 1
  ELSE FoldBytes(bs, i - 1, acc * 256 + bs[i])

\* int.from_bytes(bs, 'little', signed=signed); the empty string decodes to 0
from_bytes(bs, signed) ==
  IF Len(bs) = 0 THEN 0
  ELSE LET top == bs[Len(bs)]
           hi == IF signed /\ top >= 128 THEN top - 256 ELSE top
       IN FoldBytes(bs, Len(bs) - 1, hi)

\* a & b, a | b, a ^ b on Python integers (two's complement of unbounded width)
RECURSIVE BitAnd(_, _)
BitAnd(a, b) ==
  IF a = 0 \/ b = 0 THEN 0
  ELSE IF a = -1 THEN b
  ELSE IF b = -1 THEN a
  ELSE (a % 2) * (b % 2) + 2 * BitAnd(a \div 2, b \div 2)

RECURSIVE BitOr(_, _)
BitOr(a, b) ==
  IF a = 0 THEN b
  ELSE IF b = 0 THEN a
  ELSE IF a = -1 \/ b = -1 THEN -1
  ELSE Max(a % 2, b % 2) + 2 * BitOr(a \div 2, b \div 2)

RECURSIVE BitXor(_, _)
BitXor(a, b) ==
  IF a = 0 THEN b
  ELSE IF b = 0 THEN a
  ELSE IF a = -1 /\ b = -1 THEN 0
  ELSE ((a + b) % 2) + 2 * BitXor(a \div 2, b \div 2)

\* x & 0xFFFFFFFFFFFFFFFF
Mask64(x) == IF x >= 0 THEN x ELSE x % Pow2(64)

----------------------------------------------------------------------------
(* The byte memory: a Python list of ints.  It is kept as its length and  *)
(* the map of its non-zero bytes, which is the same list.                  *)

NewMem(n) == [len |-> Max(n, 0), nz |-> [j \in {} |-> 0]]

MemByte(m, a) == IF a \in DOMAIN m.nz THEN m.nz[a] ELSE 0

\* the list with length n whose byte at j is at(j)
MkMem(n, cand, at(_)) ==
  LET keep == {j \in cand : 0 <= j /\ j < n /\ at(j) # 0}
  IN [len |-> n, nz |-> [j \in keep |-> at(j)]]

\* Python's clamping of a slice bound i on a list of length n
PyIndex(i, n) ==
  IF i < 0 THEN Max(i + n, 0) ELSE Min(i, n)

\* mem[a:b]
Slice(m, a, b) ==
  LET lo == PyIndex(a, m.len)
      hi == PyIndex(b, m.len)
  IN [i \in 1..(hi - lo) |-> MemByte(m, lo + i - 1)]

\* mem[a:b] = bs : the slice is replaced by bs, whatever their lengths
SliceAssign(m, a, b, bs) ==
  LET lo == PyIndex(a, m.len)
      hi == Max(PyIndex(b, m.len), lo)
      k == Len(bs)
      shift == k - (hi - lo)
      at(j) == IF j < lo THEN MemByte(m, j)
               ELSE IF j < lo + k THEN bs[j - lo + 1]
               ELSE MemByte(m, j - shift)
      cand == {j \in DOMAIN m.nz : j < lo} \cup (lo..(lo + k - 1))
              \cup {j + shift : j \in {d \in DOMAIN m.nz : d >= hi}}
  IN MkMem(m.len + shift, cand, at)

\* mem.extend([0] * k)
Extend(m, k) == [m EXCEPT !.len = @ + Max(k, 0)]

\* mem[:size]
Truncate(m, size) ==
  LET n == PyIndex(size, m.len)
  IN [len |-> n, nz |-> [j \in {d \in DOMAIN m.nz : d < n} |-> m.nz[j]]]

\* s[:n] on a string
StrPrefix(s, n) == SubSeq(s, 1, PyIndex(n, Len(s)))

----------------------------------------------------------------------------
(* Lines of a source file.  A code line is kept as its tokens: the         *)
(* mnemonic, the addressing form the line is written in, and its operands. *)
(* form is "base" for [rn], "imm" for an immediate operand, "reg" for a    *)
(* register operand, "var" for =<var>, "lab" for a branch target, "none"   *)
(* for svc 0 and br lr; a label line <lab>: has op "label:".               *)

Ins(op, form, rd, rn, rm, imm, lab) ==
  [op |-> op, form |-> form, rd |-> rd, rn |-> rn, rm |-> rm, imm |-> imm,
   lab |-> lab]

Label(l) == Ins("label:", "none", "", "", "", 0, l)
Mem(op, form, rt, rn, rm, imm) == Ins(op, form, rt, rn, rm, imm, "")
LdVar(rt, v) == Ins("ldur", "var", rt, "", "", 0, v)
MovI(rd, imm) == Ins("mov", "imm", rd, "", "", imm, "")
MovR(rd, rn) == Ins("mov", "reg", rd, rn, "", 0, "")
AluI(op, rd, rn, imm) == Ins(op, "imm", rd, rn, "", imm, "")
AluR(op, rd, rn, rm) == Ins(op, "reg", rd, rn, rm, 0, "")
CmpI(rn, imm) == Ins("cmp", "imm", "", rn, "", imm, "")
CmpR(rn, rm) == Ins("cmp", "reg", "", rn, rm, 0, "")
Cb(op, rn, l) == Ins(op, "lab", "", rn, "", 0, l)
Br(op, l) == Ins(op, "lab", "", "", "", 0, l)
BrLr == Ins("br", "none", "", "lr", "", 0, "")
Svc == Ins("svc", "none", "", "", "", 0, "")

\* a directive line of the .data / .bss section
Dir(kind, name, vals, arg) ==
  [kind |-> kind, name |-> name, vals |-> vals, arg |-> arg]

IsLabelLine(l) == l.op = "label:"

LoadOps == {"ldursw", "ldurh", "ldursh", "ldurb", "ldursb", "ldur"}
StoreOps == {"sturw", "sturh", "sturb", "stur"}
ShiftOps == {"asr", "lsr", "lsl"}
AddSubOps == {"add", "adds", "sub", "subs"}
LogicOps == {"and", "ands", "orr", "orrs", "eor", "eors"}
DivOps == {"udiv", "sdiv"}
CondOps == {"b.lt", "b.le", "b.gt", "b.ge", "b.eq", "b.ne", "b.mi", "b.pl"}
CbOps == {"cbnz", "cbz"}

\* the handler of execute() whose pattern is the first to match the line
Handler(l) ==
  CASE l.op \in LoadOps /\ l.form \in {"base", "imm", "reg"} -> "load"
    [] l.op = "ldur" /\ l.form = "var" -> "ldvar"
    [] l.op \in StoreOps /\ l.form \in {"base", "imm", "reg"} -> "store"
    [] l.op = "mov" /\ l.form \in {"imm", "reg"} -> "mov"
    [] l.op = "asr" /\ l.form = "imm" -> "shift"
    [] l.op \in {"lsr", "lsl"} /\ l.form \in {"imm", "reg"} -> "shift"
    [] l.op \in AddSubOps /\ l.form \in {"imm", "reg"} -> "addsub"
    [] l.op = "mul" /\ l.form = "reg" -> "mul"
    [] l.op \in DivOps /\ l.form = "reg" -> "div"
    [] l.op = "cmp" /\ l.form \in {"imm", "reg"} -> "cmp"
    [] l.op \in LogicOps /\ l.form \in {"imm", "reg"} -> "logic"
    [] l.op \in CbOps /\ l.form = "lab" -> "cb"
    [] l.op = "b" /\ l.form = "lab" -> "b"
    [] l.op \in CondOps /\ l.form = "lab" -> "bcond"
    [] l.op = "bl" /\ l.form = "lab" -> "bl"
    [] l.op = "br" /\ l.form = "none" /\ l.rn = "lr" -> "br"
    [] l.op = "svc" /\ l.form = "none" /\ l.imm = 0 -> "svc"
    [] OTHER -> "unsupported"

----------------------------------------------------------------------------
(* parse(): the stack, then the static data in source order *)

\* sym_table[k] = v
SymPut(sym, k, v) == [x \in DOMAIN sym \cup {k} |-> IF x = k THEN v ELSE sym[x]]

\* mem.extend(bs)
ExtendBytes(m, bs) == SliceAssign(m, m.len, m.len, bs)

\* bytes of one item of .dword / .word / .hword / .byte
DirWidth(kind) ==
  CASE kind = "dword" -> 8 [] kind = "word" -> 4 [] kind = "hword" -> 2
    [] kind = "byte" -> 1

\* the <name>_TYPE_ entry
DirType(kind) ==
  CASE kind = "asciz" -> 0 [] kind = "dword" -> 1 [] kind = "space" -> 2
    [] kind = "word" -> 3 [] kind = "hword" -> 4 [] kind = "byte" -> 5

\* signed = not (0 <= n <= 255 ** W); 255 ** 4 is above every integer of the model
InferSigned(n, W) ==
  ~(0 <= n /\ (IF W >= 4 THEN TRUE ELSE IF W = 2 THEN n <= 255 * 255 ELSE n <= 255))

RECURSIVE ItemBytes(_, _)
ItemBytes(vals, W) ==
  IF vals = <<>> THEN <<>>
  ELSE to_bytes(Head(vals), W) \o ItemBytes(Tail(vals), W)

\* the shadow entries and the address of a variable declared with a directive
Declare(sym, name, index, size, kind) ==
  SymPut(SymPut(SymPut(sym, name, index), name \o "_SIZE_", size),
         name \o "_TYPE_", DirType(kind))

\* one line of the data or bss section; ok turns false where parse raises
ParseDirective(st, d) ==
  IF ~st.ok THEN st
  ELSE IF d.kind = "asciz" THEN
    [st EXCEPT !.sym = Declare(st.sym, d.name, st.index, Len(d.vals), d.kind),
               !.mem = ExtendBytes(st.mem, d.vals),
               !.index = @ + Len(d.vals)]
  ELSE IF d.kind = "space" THEN
    IF d.arg # "" /\ d.arg \notin DOMAIN st.sym THEN [st EXCEPT !.ok = FALSE]
    ELSE LET size == IF d.arg # "" THEN st.sym[d.arg] ELSE d.vals[1]
         IN [st EXCEPT !.mem = Extend(st.mem, size),
                       !.sym = Declare(st.sym, d.name, st.index, size, d.kind),
                       !.index = @ + size]
  ELSE IF d.kind \in {"dword", "word", "hword", "byte"} THEN
    LET W == DirWidth(d.kind)
        size == Len(d.vals) * W
    IN IF \E i \in 1..Len(d.vals) :
            ~CanEncode(d.vals[i], W, InferSigned(d.vals[i], W))
         THEN [st EXCEPT !.ok = FALSE]
         ELSE [st EXCEPT !.mem = ExtendBytes(st.mem, ItemBytes(d.vals, W)),
                         !.sym = Declare(st.sym, d.name, st.index, size, d.kind),
                         !.index = @ + size]
  ELSE IF d.kind = "len" THEN
    IF d.arg \notin DOMAIN st.sym \/ (d.arg \o "_SIZE_") \notin DOMAIN st.sym
      THEN [st EXCEPT !.ok = FALSE]
      ELSE [st EXCEPT !.sym = SymPut(st.sym, d.name, st.sym[d.arg \o "_SIZE_"])]
  ELSE \* kind = "assign": <name>=<symbol or number>
    IF d.arg # "" /\ d.arg \in DOMAIN st.sym
      THEN [st EXCEPT !.sym = SymPut(st.sym, d.name, st.sym[d.arg])]
    ELSE IF d.arg # "" THEN [st EXCEPT !.ok = FALSE]
    ELSE [st EXCEPT !.sym = SymPut(st.sym, d.name, d.vals[1])]

RECURSIVE ParseData(_, _)
ParseData(st, ds) ==
  IF ds = <<>> THEN st ELSE ParseData(ParseDirective(st, Head(ds)), Tail(ds))

\* the stack pointer set to the length of the stack
InitialSp_Len(stack) == stack.len

\* reg['sp'] = len(mem) - 1, with mem holding the stack only
InitialSp(stack) == stack.len - 1

\* parse(lines) on a simulator just loaded or reset: data are the directive
\* lines of the .data and .bss sections
parse(data) ==
  LET stack == Extend(NewMem(0), STACK_SIZE)
      st == ParseData([mem |-> stack, sym |-> [x \in {} |-> 0],
                       index |-> stack.len, ok |-> TRUE], data)
  IN [mem |-> st.mem, sym_table |-> st.sym, sp |-> InitialSp(stack),
      original_break |-> st.index, brk |-> st.index,
      ok |-> st.ok /\ st.index = st.mem.len]

\* a line of the source file, after strip(): text is what the section and
\* comment tests of parse() look for in it ("/*", "*/", ".data", ".bss",
\* "main:"), "code" for an instruction or label line and "data" for a
\* directive line, whose tokens are body
SrcLine(text, body) == [text |-> text, body |-> body]

\* the loop of parse() over the lines: the comment and section flags it
\* keeps, the lines appended to asm and the directive lines it handles
RECURSIVE ReadLines(_, _, _)
ReadLines(ls, i, f) ==
  IF i > Len(ls) THEN f
  ELSE LET l == ls[i] IN
    IF l.text = "/*" THEN ReadLines(ls, i + 1, [f EXCEPT !.comment = TRUE])
    ELSE IF l.text = "*/" THEN ReadLines(ls, i + 1, [f EXCEPT !.comment = FALSE])
    ELSE IF l.text = ".data"
      THEN ReadLines(ls, i + 1, [f EXCEPT !.data = TRUE, !.code = FALSE, !.bss = FALSE])
    ELSE IF l.text = ".bss"
      THEN ReadLines(ls, i + 1, [f EXCEPT !.data = FALSE, !.code = FALSE, !.bss = TRUE])
    ELSE IF l.text = "main:"
      THEN ReadLines(ls, i + 1, [f EXCEPT !.code = TRUE, !.data = FALSE, !.bss = FALSE])
    ELSE ReadLines(ls, i + 1,
           [f EXCEPT !.asm = IF f.code /\ ~f.comment THEN @ \o l.body ELSE @,
                     !.dirs = IF (f.data \/ f.bss) /\ ~f.comment /\ l.text = "data"
                                THEN @ \o l.body ELSE @])

\* what parse() takes from the file: the instruction stream and the
\* directive lines of the data sections
Read(ls) ==
  ReadLines(ls, 1, [comment |-> FALSE, code |-> FALSE, data |-> FALSE,
                    bss |-> FALSE, asm |-> <<>>, dirs |-> <<>>])

----------------------------------------------------------------------------
(* check_static_rules() *)

\* labels of the explored programs whose text begins with b or cb
BLabels == {"back", "big"}

\* asm.index(<lab>:) ; -1 stands for the ValueError of a missing element
RECURSIVE IndexFrom(_, _, _)
IndexFrom(a, name, i) ==
  IF i > Len(a) THEN -1
  ELSE IF a[i] = Label(name) THEN i - 1
  ELSE IndexFrom(a, name, i + 1)

Index(a, name) == IndexFrom(a, name, 1)

\* the test without bl
StartsWithB_NoBl(l) ==
  IF IsLabelLine(l) THEN l.lab \in BLabels
  ELSE l.op \in {"b", "br"} \cup CondOps \cup CbOps

\* re.match('c?b(.*?)', line): the line begins with b or cb
StartsWithB(l) ==
  IF IsLabelLine(l) THEN l.lab \in BLabels
  ELSE l.op \in {"b", "bl", "br"} \cup CondOps \cup CbOps

\* re.findall(label_regex, line)[-1]
LastToken(l) == IF l.op = "br" THEN l.rn ELSE l.lab

\* the error check_static_rules() raises on asm, or "none"
StaticError(a) ==
  LET n == Len(a)
      mnemonics == {a[i].op : i \in {j \in 1..n : ~IsLabelLine(a[j])}}
      dup == \E i, j \in 1..n :
               i < j /\ IsLabelLine(a[i]) /\ a[i] = a[j]
      missing == \E i \in 1..n :
                   /\ a[i] # BrLr
                   /\ StartsWithB(a[i])
                   /\ Index(a, LastToken(a[i])) = -1
                   /\ LastToken(a[i]) \notin linked_labels
      loopLines == {i \in 1..(n - 1) :
                      StartsWithB(a[i]) /\ ~(a[i].op = "bl" /\ ~IsLabelLine(a[i]))}
      dead == \E i \in 1..(n - 1) :
                /\ a[i] = BrLr \/ (a[i].op = "b" /\ ~IsLabelLine(a[i]))
                /\ ~IsLabelLine(a[i + 1])
  IN IF n = 0 THEN "no code detected"
     ELSE IF mnemonics \cap forbidden_instructions # {} THEN "disallowed"
     ELSE IF dup THEN "label declared twice"
     ELSE IF missing THEN "nonexistent label"
     ELSE IF forbid_loops
             /\ \E i \in loopLines : Index(a, LastToken(a[i])) = -1
       THEN "ValueError"
     ELSE IF forbid_loops
             /\ \E i \in loopLines : Index(a, LastToken(a[i])) < i - 1
       THEN "you cannot loop"
     ELSE IF check_dead_code /\ dead THEN "dead code"
     ELSE "none"

----------------------------------------------------------------------------
(* run(): the driver loop *)

\* the line the loop fetches
Line == asm[pc + 1]

Fetching == phase = "running" /\ pc < Len(asm)

\* the stack checks without the alignment test
StackOk_NoAlign ==
  /\ reg["sp"] >= 0
  /\ reg["sp"] <= STACK_SIZE

StackOk ==
  /\ reg["sp"] >= 0
  /\ reg["sp"] <= STACK_SIZE
  /\ (reg["sp"] + 1) % 16 = 0

\* the loop iteration reaches execute(line) and the line matches handler h
Executing(h) ==
  /\ Fetching
  /\ StackOk
  /\ ~IsLabelLine(Line)
  /\ Handler(Line) = h

\* the recursion test made on every fetched line, before the stack checks
NoteRecursion ==
  recursed_labels' =
    IF Line.op = "bl" /\ Line.form = "lab" /\ pc = reg["lr"]
      THEN recursed_labels \cup {Line.lab}
      ELSE recursed_labels

\* the first statements of execute(): pen is what the handler adds to cycle_count
Counters(pen, dst) ==
  /\ cycle_count' = cycle_count + 1 + pen
  /\ execute_count' = execute_count + 1
  /\ last_dst' = dst

\* run() without its  reg['xzr'] = 0  after execute(line)
Return_NoClear(r, p) ==
  /\ reg' = r
  /\ pc' = p + 1
  /\ UNCHANGED <<phase, err>>

\* execute() returns with registers r and program counter p; run() clears xzr
\* and steps to the next line
Return(r, p) ==
  /\ reg' = [r EXCEPT !["xzr"] = 0]
  /\ pc' = p + 1
  /\ UNCHANGED <<phase, err>>

\* an exception leaves run()
Raise(e) ==
  /\ err' = e
  /\ phase' = "failed"
  /\ UNCHANGED <<reg, pc>>

\* run() with the first line counted before check_static_rules() is called
RunStart_CheckAfter ==
  /\ phase = "parsed"
  /\ LET e == StaticError(asm)
         labels == {asm[i].lab : i \in {j \in 1..Len(asm) : IsLabelLine(asm[j])}}
                   \cup linked_labels
     IN IF e # "none"
          THEN /\ err' = e
               /\ phase' = "failed"
               /\ cycle_count' = cycle_count + 1
               /\ execute_count' = execute_count + 1
               /\ UNCHANGED <<label_hit_counts, recursed_labels>>
          ELSE /\ recursed_labels' = {}
               /\ label_hit_counts' = [l \in labels |-> 0]
               /\ phase' = "running"
               /\ err' = err
               /\ UNCHANGED <<cycle_count, execute_count>>
  /\ UNCHANGED <<progVars, pc, reg, mem, brk, flagVars, ldVars, last_dst, stdout>>
  /\ Quiet

RunStart ==
  /\ phase = "parsed"
  /\ LET e == StaticError(asm)
         labels == {asm[i].lab : i \in {j \in 1..Len(asm) : IsLabelLine(asm[j])}}
                   \cup linked_labels
     IN IF e # "none"
          THEN /\ err' = e
               /\ phase' = "failed"
               /\ UNCHANGED <<label_hit_counts, recursed_labels>>
          ELSE /\ recursed_labels' = {}
               /\ label_hit_counts' = [l \in labels |-> 0]
               /\ phase' = "running"
               /\ err' = err
  /\ UNCHANGED <<progVars, pc, reg, mem, brk, flagVars, ldVars, cycle_count,
                 execute_count, last_dst, stdout>>
  /\ Quiet

\* a stack check of the loop fails
RunStackError ==
  /\ Fetching
  /\ ~StackOk
  /\ NoteRecursion
  /\ Raise(IF reg["sp"] < 0 THEN "stack overflow"
           ELSE IF reg["sp"] > STACK_SIZE THEN "stack underflow"
           ELSE "Alignment error")
  /\ UNCHANGED <<progVars, mem, brk, flagVars, ldVars, cycle_count,
                 execute_count, last_dst, stdout, label_hit_counts>>
  /\ Quiet

\* the fetched line is a label: count it and step over it
RunLabel ==
  /\ Fetching
  /\ StackOk
  /\ IsLabelLine(Line)
  /\ NoteRecursion
  /\ pc' = pc + 1
  /\ label_hit_counts' = [label_hit_counts EXCEPT ![Line.lab] = @ + 1]
  /\ UNCHANGED <<progVars, reg, mem, brk, flagVars, ldVars, cycle_count,
                 execute_count, last_dst, stdout, phase, err>>
  /\ Quiet

\* the loop has ended: the recursion policy
RunFinish ==
  /\ phase = "running"
  /\ pc >= Len(asm)
  /\ LET e == IF recursed_labels # {} /\ forbid_recursion
                THEN "recursion occurred"
              ELSE IF recursed_labels = {} /\ require_recursion
                THEN "recursion did not occur"
              ELSE IF recursed_labels # {}
                      /\ recursive_labels \ recursed_labels # {}
                THEN "recursive calls do not include required call"
              ELSE "none"
     IN /\ phase' = IF e = "none" THEN "done" ELSE "failed"
        /\ err' = e
  /\ UNCHANGED <<progVars, pc, reg, mem, brk, flagVars, ldVars, cycle_count,
                 execute_count, last_dst, stdout, label_hit_counts,
                 recursed_labels>>
  /\ Quiet

----------------------------------------------------------------------------
(* execute(): loads and stores *)

\* the load-use test: a source register is the last load's destination
LdHit(srcs, lim) == ld_dst \in srcs /\ cycle_count - ld_cycle <= lim
\* the distance taken backwards
LdDelta_Back == ld_cycle - cycle_count

\* current_cycle - ld_cycle
LdDelta == cycle_count - ld_cycle

\* "flat" adds 1, "delta" adds current_cycle - ld_cycle, "none" has no test
MemHazard(l) ==
  CASE l.op \in {"ldursw", "ldurh", "ldursh"} ->
         IF l.form = "base" THEN "flat" ELSE "delta"
    [] l.op \in {"ldurb", "ldursb"} ->
         IF l.form = "reg" THEN "delta" ELSE "flat"
    [] l.op = "ldur" -> "flat"
    [] l.op \in {"sturw", "sturh", "sturb"} ->
         IF l.form = "reg" THEN "flat" ELSE "delta"
    [] l.op = "stur" ->
         IF l.form = "base" THEN "delta"
         ELSE IF l.form = "imm" THEN "none" ELSE "flat"

\* the registers an operand list in form "reg" / otherwise reads
Sources(l) == IF l.form = "reg" THEN {l.rn, l.rm} ELSE {l.rn}

Penalty(kind, l, lim) ==
  IF kind = "none" \/ ~LdHit(Sources(l), lim) THEN 0
  ELSE IF kind = "flat" THEN 1 ELSE LdDelta

Addr(l) ==
  CASE l.form = "base" -> reg[l.rn]
    [] l.form = "imm" -> reg[l.rn] + l.imm
    [] l.form = "reg" -> reg[l.rn] + reg[l.rm]

\* bytes moved by the instruction
Width(op) ==
  CASE op \in {"ldursw", "sturw"} -> 4
    [] op \in {"ldurh", "ldursh", "sturh"} -> 2
    [] op \in {"ldurb", "ldursb", "sturb"} -> 1
    [] op \in {"ldur", "stur"} -> 8

\* the K of the handler's test  addr > len(mem) - K
BoundSlack(l) ==
  CASE l.op = "ldursw" -> IF l.form = "base" THEN 4 ELSE 2
    [] l.op \in {"ldurh", "ldursh", "sturh", "sturw"} -> 2
    [] l.op \in {"ldurb", "ldursb", "sturb"} -> 1
    [] l.op \in {"ldur", "stur"} -> 8

OutOfBounds(l) ==
  Addr(l) < reg["sp"] \/ Addr(l) > mem.len - BoundSlack(l)

SignedLoad(op) == op \in {"ldursw", "ldursh", "ldursb"}

\* a store that writes all eight encoded bytes, whatever its width
StoreBytes_Wide(l) == to_bytes(reg[l.rd], 8)

\* the bytes a store writes; stur encodes unsigned, the others signed
StoreSigned(op) == op # "stur"
StoreBytes(l) == SubSeq(to_bytes(reg[l.rd], 8), 1, Width(l.op))

ExecLoad ==
  /\ Executing("load")
  /\ NoteRecursion
  /\ Counters(Penalty(MemHazard(Line), Line, 2), "None")
  /\ IF OutOfBounds(Line)
       THEN /\ Raise("out of bounds memory access")
            /\ UNCHANGED ldVars
       ELSE /\ Return([reg EXCEPT ![Line.rd] =
                         from_bytes(Slice(mem, Addr(Line), Addr(Line) + Width(Line.op)),
                                    SignedLoad(Line.op))], pc)
            /\ ld_cycle' = cycle_count
            /\ ld_dst' = Line.rd
  /\ UNCHANGED <<progVars, mem, brk, flagVars, stdout, label_hit_counts>>
  /\ Quiet

\* ldur rt,=<var>
ExecLoadVar ==
  /\ Executing("ldvar")
  /\ NoteRecursion
  /\ Counters(0, "None")
  /\ IF Line.lab \notin DOMAIN sym_table
       THEN /\ Raise("KeyError")
            /\ UNCHANGED ldVars
       ELSE /\ Return([reg EXCEPT ![Line.rd] = sym_table[Line.lab]], pc)
            /\ ld_cycle' = cycle_count
            /\ ld_dst' = Line.rd
  /\ UNCHANGED <<progVars, mem, brk, flagVars, stdout, label_hit_counts>>
  /\ Quiet

\* a store that writes before it tests the address
ExecStore_WriteFirst ==
  /\ Executing("store")
  /\ NoteRecursion
  /\ Counters(Penalty(MemHazard(Line), Line, 2), "None")
  /\ mem' = SliceAssign(mem, Addr(Line), Addr(Line) + Width(Line.op),
                        StoreBytes(Line))
  /\ IF OutOfBounds(Line)
       THEN Raise("out of bounds memory access")
     ELSE IF ~CanEncode(reg[Line.rd], 8, StoreSigned(Line.op))
       THEN Raise("OverflowError")
     ELSE Return(reg, pc)
  /\ UNCHANGED <<progVars, brk, flagVars, ldVars, stdout, label_hit_counts>>
  /\ Quiet

ExecStore ==
  /\ Executing("store")
  /\ NoteRecursion
  /\ Counters(Penalty(MemHazard(Line), Line, 2), "None")
  /\ IF OutOfBounds(Line)
       THEN Raise("out of bounds memory access") /\ mem' = mem
     ELSE IF ~CanEncode(reg[Line.rd], 8, StoreSigned(Line.op))
       THEN Raise("OverflowError") /\ mem' = mem
     ELSE /\ Return(reg, pc)
          /\ mem' = SliceAssign(mem, Addr(Line), Addr(Line) + Width(Line.op),
                                StoreBytes(Line))
  /\ UNCHANGED <<progVars, brk, flagVars, ldVars, stdout, label_hit_counts>>
  /\ Quiet

----------------------------------------------------------------------------
(* execute(): moves, arithmetic, compare, logic *)

\* x >> k on Python integers
RECURSIVE Shr(_, _)
Shr(x, k) == IF k = 0 \/ x = 0 \/ x = -1 THEN x ELSE Shr(x \div 2, k - 1)

\* x << k
Shl(x, k) == x * Pow2(k)

\* a // b
FloorDiv(a, b) == IF b > 0 THEN a \div b ELSE (-a) \div (-b)

\* the flag test made on the mnemonic's stem: add would write the flags too
SetsFlags_Stem(op) == op \in {"add", "adds", "subs", "ands", "orrs", "eors"}

\* the mnemonic carries the s suffix
SetsFlags(op) == op \in {"adds", "subs", "ands", "orrs", "eors"}

\* the second operand of a three-operand or compare instruction
Operand2(l) == IF l.form = "imm" THEN l.imm ELSE reg[l.rm]

AluHazard(l) ==
  CASE l.op = "mov" -> IF l.form = "imm" THEN "none" ELSE "flat"
    [] l.op \in ShiftOps \cup {"sub", "subs"} \cup LogicOps ->
         IF l.form = "imm" THEN "delta" ELSE "flat"
    [] OTHER -> "flat"

\* add{s} rd,rn,imm tests current_cycle - ld_cycle <= 1, every other form <= 2
HazardLimit(l) == IF l.op \in {"add", "adds"} /\ l.form = "imm" THEN 1 ELSE 2

AluPenalty(l) == Penalty(AluHazard(l), l, HazardLimit(l))

\* the value the handler writes to rd
AluResult(l) ==
  LET a == reg[l.rn]
      b == Operand2(l)
  IN CASE l.op = "mov" -> IF l.form = "imm" THEN l.imm ELSE a
       [] l.op = "asr" -> Shr(a, b)
       [] l.op = "lsr" -> Shr(Mask64(a), b)
       [] l.op = "lsl" -> Mask64(Shl(a, b))
       [] l.op \in {"add", "adds"} -> a + b
       [] l.op \in {"sub", "subs"} -> a - b
       [] l.op = "mul" -> a * b
       [] l.op \in DivOps -> FloorDiv(a, b)
       [] l.op \in {"and", "ands"} -> BitAnd(a, b)
       [] l.op \in {"orr", "orrs"} -> BitOr(a, b)
       [] l.op \in {"eor", "eors"} -> BitXor(a, b)

\* the s forms with N taken as result <= 0
WriteFlags_NonPositive(l, result) ==
  IF l.op \in {"adds", "subs", "ands", "orrs", "eors"}
    THEN /\ n_flag' = (result <= 0)
         /\ z_flag' = (result = 0)
         /\ flag_cycle' = cycle_count
    ELSE UNCHANGED flagVars

\* the s forms: flags from the value just written to rd
WriteFlags(l, result) ==
  IF SetsFlags(l.op)
    THEN /\ n_flag' = (result < 0)
         /\ z_flag' = (result = 0)
         /\ flag_cycle' = cycle_count
    ELSE UNCHANGED flagVars

ExecMov ==
  /\ Executing("mov")
  /\ NoteRecursion
  /\ Counters(AluPenalty(Line), Line.rd)
  /\ Return([reg EXCEPT ![Line.rd] = AluResult(Line)], pc)
  /\ UNCHANGED <<progVars, mem, brk, flagVars, ldVars, stdout, label_hit_counts>>
  /\ Quiet

\* asr / lsr / lsl; a negative shift count raises ValueError before rd is written
ExecShift ==
  /\ Executing("shift")
  /\ NoteRecursion
  /\ IF Operand2(Line) < 0
       THEN Counters(AluPenalty(Line), "None") /\ Raise("ValueError")
       ELSE /\ Counters(AluPenalty(Line), Line.rd)
            /\ Return([reg EXCEPT ![Line.rd] = AluResult(Line)], pc)
  /\ UNCHANGED <<progVars, mem, brk, flagVars, ldVars, stdout, label_hit_counts>>
  /\ Quiet

ExecAddSub ==
  /\ Executing("addsub")
  /\ NoteRecursion
  /\ Counters(AluPenalty(Line), Line.rd)
  /\ Return([reg EXCEPT ![Line.rd] = AluResult(Line)], pc)
  /\ WriteFlags(Line, AluResult(Line))
  /\ UNCHANGED <<progVars, mem, brk, ldVars, stdout, label_hit_counts>>
  /\ Quiet

\* mul: the load-use test, then 4 more cycles
ExecMul ==
  /\ Executing("mul")
  /\ NoteRecursion
  /\ Counters(AluPenalty(Line) + 4, Line.rd)
  /\ Return([reg EXCEPT ![Line.rd] = AluResult(Line)], pc)
  /\ UNCHANGED <<progVars, mem, brk, flagVars, ldVars, stdout, label_hit_counts>>
  /\ Quiet

\* udiv / sdiv: the same handler body; rm = 0 raises ZeroDivisionError
ExecDiv ==
  /\ Executing("div")
  /\ NoteRecursion
  /\ IF reg[Line.rm] = 0
       THEN Counters(AluPenalty(Line), "None") /\ Raise("ZeroDivisionError")
       ELSE /\ Counters(AluPenalty(Line), Line.rd)
            /\ Return([reg EXCEPT ![Line.rd] = AluResult(Line)], pc)
  /\ UNCHANGED <<progVars, mem, brk, flagVars, ldVars, stdout, label_hit_counts>>
  /\ Quiet

\* cmp rn,rm / cmp rn,imm ; the second register may not be sp
ExecCmp ==
  /\ Executing("cmp")
  /\ NoteRecursion
  /\ IF Line.form = "reg" /\ Line.rm = "sp"
       THEN /\ Counters(AluPenalty(Line), "None")
            /\ Raise("AssertionError")
            /\ UNCHANGED flagVars
       ELSE /\ Counters(AluPenalty(Line), Line.rn)
            /\ Return(reg, pc)
            /\ z_flag' = (reg[Line.rn] = Operand2(Line))
            /\ n_flag' = (reg[Line.rn] < Operand2(Line))
            /\ flag_cycle' = cycle_count
  /\ UNCHANGED <<progVars, mem, brk, ldVars, stdout, label_hit_counts>>
  /\ Quiet

ExecLogic ==
  /\ Executing("logic")
  /\ NoteRecursion
  /\ Counters(AluPenalty(Line), Line.rd)
  /\ Return([reg EXCEPT ![Line.rd] = AluResult(Line)], pc)
  /\ WriteFlags(Line, AluResult(Line))
  /\ UNCHANGED <<progVars, mem, brk, ldVars, stdout, label_hit_counts>>
  /\ Quiet

----------------------------------------------------------------------------
(* execute(): branches *)

\* the text w occurs in the text s
Contains(s, w) ==
  \E i \in 1..Len(s) :
    i + Len(w) - 1 <= Len(s) /\ SubSeq(s, i, i + Len(w) - 1) = w

\* re.findall(register_regex, <lab>) is not empty: lr, fp, sp and xzr match
\* anywhere in a word, x<n> only as a whole word
NamesRegister(lab) ==
  lab \in RegNames \/ \E w \in {"lr", "fp", "sp", "xzr"} : Contains(lab, w)

\* b.<cond> is taken
CondHolds(op) ==
  CASE op = "b.lt" -> n_flag
    [] op = "b.le" -> n_flag \/ z_flag
    [] op = "b.gt" -> ~z_flag /\ ~n_flag
    [] op = "b.ge" -> ~n_flag
    [] op = "b.eq" -> z_flag
    [] op = "b.ne" -> ~z_flag
    [] op = "b.mi" -> n_flag
    [] op = "b.pl" -> ~n_flag \/ z_flag

\* the flag-use test; the b.mi handler has none
FlagUse(op) ==
  IF op # "b.mi" /\ cycle_count - flag_cycle <= 1 THEN 1 ELSE 0

\* cbz / cbnz: last_dst was set to None when execute() began, so its test
\* against rn compares None with a register name
CbPenalty(l) ==
  IF "None" = l.rn THEN 1
  ELSE IF LdHit({l.rn}, 2) THEN 3 - LdDelta
  ELSE 0

\* a branch that is held back while rn is the last load's destination
CbTaken_Stall(l) ==
  /\ ld_dst # l.rn
  /\ IF l.op = "cbnz" THEN reg[l.rn] # 0 ELSE reg[l.rn] = 0

CbTaken(l) == IF l.op = "cbnz" THEN reg[l.rn] # 0 ELSE reg[l.rn] = 0

\* a branch handler: extra cycles pen, taken or not.  A target in which the
\* register pattern finds a match raises before anything is counted; a taken branch to a label
\* missing from asm raises after the penalty
Branch(pen, taken) ==
  IF NamesRegister(Line.lab)
    THEN Counters(0, "None") /\ Raise("ValueError")
  ELSE IF taken /\ Index(asm, Line.lab) = -1
    THEN Counters(pen, "None") /\ Raise("ValueError")
  ELSE /\ Counters(pen + (IF taken THEN 1 ELSE 0), "None")
       /\ Return(reg, IF taken THEN Index(asm, Line.lab) ELSE pc)

ExecCb ==
  /\ Executing("cb")
  /\ NoteRecursion
  /\ Branch(CbPenalty(Line), CbTaken(Line))
  /\ UNCHANGED <<progVars, mem, brk, flagVars, ldVars, stdout, label_hit_counts>>
  /\ Quiet

ExecB ==
  /\ Executing("b")
  /\ NoteRecursion
  /\ Branch(0, TRUE)
  /\ UNCHANGED <<progVars, mem, brk, flagVars, ldVars, stdout, label_hit_counts>>
  /\ Quiet

ExecBCond ==
  /\ Executing("bcond")
  /\ NoteRecursion
  /\ Branch(FlagUse(Line.op), CondHolds(Line.op))
  /\ UNCHANGED <<progVars, mem, brk, flagVars, ldVars, stdout, label_hit_counts>>
  /\ Quiet

\* bl: lr and the hit count are written before the target is looked up.  The
\* callable of a linked label is host code; it is taken to leave the machine as
\* it finds it
ExecBl ==
  /\ Executing("bl")
  /\ NoteRecursion
  /\ LET pen == IF cycle_count - flag_cycle <= 1 THEN 1 ELSE 0
         lr == [reg EXCEPT !["lr"] = pc]
         linked == Line.lab \in linked_labels
     IN IF NamesRegister(Line.lab)
          THEN /\ Counters(0, "None")
               /\ Raise("ValueError")
               /\ UNCHANGED label_hit_counts
          ELSE /\ label_hit_counts' =
                    IF Line.lab \in DOMAIN label_hit_counts
                      THEN [label_hit_counts EXCEPT ![Line.lab] = @ + 1]
                      ELSE label_hit_counts
               /\ IF ~linked /\ Index(asm, Line.lab) = -1
                    THEN /\ Counters(pen, "None")
                         /\ err' = "ValueError"
                         /\ phase' = "failed"
                         /\ reg' = lr
                         /\ pc' = pc
                    ELSE /\ Counters(pen + 1, "None")
                         /\ Return(lr, IF linked THEN pc ELSE Index(asm, Line.lab))
  /\ host_calls' = IF Line.lab \in linked_labels /\ ~NamesRegister(Line.lab)
                     THEN Append(host_calls, Line.lab)
                     ELSE host_calls
  /\ UNCHANGED <<progVars, mem, brk, flagVars, ldVars, stdout>>
  /\ Logged

\* br lr that accepts len(asm) as an address
ExecBr_OffByOne ==
  /\ Executing("br")
  /\ NoteRecursion
  /\ IF reg["lr"] \notin 0..Len(asm)
       THEN Counters(0, "None") /\ Raise("ValueError")
       ELSE Counters(1, "None") /\ Return(reg, reg["lr"])
  /\ UNCHANGED <<progVars, mem, brk, flagVars, ldVars, stdout, label_hit_counts>>
  /\ Quiet

ExecBr ==
  /\ Executing("br")
  /\ NoteRecursion
  /\ IF reg["lr"] \notin 0..(Len(asm) - 1)
       THEN Counters(0, "None") /\ Raise("ValueError")
       ELSE Counters(1, "None") /\ Return(reg, reg["lr"])
  /\ UNCHANGED <<progVars, mem, brk, flagVars, ldVars, stdout, label_hit_counts>>
  /\ Quiet

ExecUnsupported ==
  /\ Executing("unsupported")
  /\ NoteRecursion
  /\ Counters(0, "None")
  /\ Raise("Unsupported instruction or syntax error")
  /\ UNCHANGED <<progVars, mem, brk, flagVars, ldVars, stdout, label_hit_counts>>
  /\ Quiet

----------------------------------------------------------------------------
(* execute(): svc 0 *)

Syscall(n) == Executing("svc") /\ reg["x8"] = n

\* the lines standard input can hold: up to MaxInput characters 'h'
StdinLines == {[i \in 1..n |-> 104] : n \in 0..MaxInput}

\* the strings os.urandom(q) can return, for q up to MaxRandom
Urandom(q) == [1..q -> {0, 255}]

\* exit that leaves pc where it is
SvcExit_Continue ==
  /\ Syscall(SYS_EXIT)
  /\ NoteRecursion
  /\ Counters(0, "None")
  /\ Return(reg, pc)
  /\ UNCHANGED <<progVars, mem, brk, flagVars, ldVars, stdout, label_hit_counts>>
  /\ Quiet

\* exit: the loop's test fails at the next iteration
SvcExit ==
  /\ Syscall(SYS_EXIT)
  /\ NoteRecursion
  /\ Counters(0, "None")
  /\ Return(reg, Len(asm))
  /\ UNCHANGED <<progVars, mem, brk, flagVars, ldVars, stdout, label_hit_counts>>
  /\ Quiet

SvcWrite ==
  /\ Syscall(SYS_WRITE)
  /\ NoteRecursion
  /\ Counters(0, "None")
  /\ LET output == Slice(mem, reg["x1"], reg["x1"] + reg["x2"])
     IN IF reg["x0"] # 1
          THEN Raise("AssertionError") /\ stdout' = stdout
        ELSE IF \E i \in 1..Len(output) : output[i] >= 128
          THEN Raise("UnicodeDecodeError") /\ stdout' = stdout
        ELSE Return(reg, pc) /\ stdout' = stdout \o output
  /\ UNCHANGED <<progVars, mem, brk, flagVars, ldVars, label_hit_counts>>
  /\ Quiet

SvcRead ==
  /\ Syscall(SYS_READ)
  /\ NoteRecursion
  /\ Counters(0, "None")
  /\ \E typed \in StdinLines :
       LET enter == StrPrefix(typed \o <<10>>, reg["x2"])
           addr == reg["x1"]
       IN /\ mem' = SliceAssign(mem, addr, addr + Len(enter), enter)
          /\ Return([reg EXCEPT !["x0"] = Len(enter)], pc)
  /\ UNCHANGED <<progVars, brk, flagVars, ldVars, stdout, label_hit_counts>>
  /\ Quiet

\* rounding down to the page at or below break_size
BrkPage_Down(break_size) == break_size - (break_size % PAGE_SIZE)

\* round up to the page above break_size
BrkPage(break_size) == (break_size + PAGE_SIZE) - (break_size % PAGE_SIZE)

\* the adjust branch raises: the page count is above the heap size
BrkFails(new_brk) ==
  new_brk > original_break /\ BrkPage(new_brk - original_break) > HEAP_SIZE

\* x0 left as the caller passed it, in every branch
BrkReturn_Arg(new_brk) == new_brk

\* x0 when the handler returns
BrkReturn(new_brk) == IF new_brk < original_break THEN brk ELSE new_brk

\* brk set to the argument, also below original_break
BrkBreak_Unchecked(new_brk) == new_brk

\* brk when the handler returns
BrkBreak(new_brk) == IF new_brk < original_break THEN brk ELSE new_brk

\* mem when the handler returns
BrkMem(new_brk) ==
  LET page == BrkPage(new_brk - original_break)
  IN IF new_brk < original_break THEN mem
     ELSE IF new_brk = original_break THEN Truncate(mem, original_break)
     ELSE IF mem.len > page + original_break
       THEN Truncate(mem, page + original_break)
       ELSE Extend(mem, page)

SvcBrk ==
  /\ Syscall(SYS_BRK)
  /\ NoteRecursion
  /\ Counters(0, "None")
  /\ LET new_brk == reg["x0"]
     IN IF BrkFails(new_brk)
          THEN /\ Raise("break size too large")
               /\ UNCHANGED <<mem, brk>>
          ELSE /\ mem' = BrkMem(new_brk)
               /\ brk' = BrkBreak(new_brk)
               /\ Return([reg EXCEPT !["x0"] = BrkReturn(new_brk)], pc)
  /\ UNCHANGED <<progVars, flagVars, ldVars, stdout, label_hit_counts>>
  /\ Quiet

SvcGetrandom ==
  /\ Syscall(SYS_GETRANDOM)
  /\ reg["x1"] <= MaxRandom
  /\ NoteRecursion
  /\ Counters(0, "None")
  /\ LET addr == reg["x0"]
         quantity == reg["x1"]
     IN IF quantity < 0
          THEN Raise("ValueError") /\ mem' = mem
          ELSE \E random \in Urandom(quantity) :
                 /\ mem' = SliceAssign(mem, addr, addr + quantity, random)
                 /\ Return([reg EXCEPT !["x0"] = quantity], pc)
  /\ UNCHANGED <<progVars, brk, flagVars, ldVars, stdout, label_hit_counts>>
  /\ Quiet

SvcUnsupported ==
  /\ Executing("svc")
  /\ reg["x8"] \notin {SYS_EXIT, SYS_WRITE, SYS_READ, SYS_BRK, SYS_GETRANDOM}
  /\ NoteRecursion
  /\ Counters(0, "None")
  /\ Raise("Unsupported system call")
  /\ UNCHANGED <<progVars, mem, brk, flagVars, ldVars, stdout, label_hit_counts>>
  /\ Quiet

----------------------------------------------------------------------------
(* reset() *)

\* reset() without  reg = {r: 0 for r in reg}
Reset_KeepRegs ==
  /\ phase \in {"parsed", "done", "failed"}
  /\ forbidden_instructions' = {}
  /\ require_recursion' = FALSE
  /\ forbid_recursion' = FALSE
  /\ forbid_loops' = FALSE
  /\ mem' = NewMem(0)
  /\ asm' = <<>>
  /\ sym_table' = [x \in {} |-> 0]
  /\ n_flag' = FALSE
  /\ z_flag' = FALSE
  /\ pc' = 0
  /\ cycle_count' = 0
  /\ execute_count' = 0
  /\ ld_cycle' = -1
  /\ ld_dst' = "-1"
  /\ flag_cycle' = -1
  /\ last_dst' = "-1"
  /\ linked_labels' = {}
  /\ phase' = "reset"
  /\ UNCHANGED <<reg, check_dead_code, recursive_labels, original_break, brk,
                 label_hit_counts, recursed_labels, stdout, err, host_calls,
                 replay, lines>>

\* the host calls reset() between runs; the dead-code flag, the required
\* labels, both breaks and the hit counts are not among what it assigns
Reset ==
  /\ phase \in {"parsed", "done", "failed"}
  /\ forbidden_instructions' = {}
  /\ require_recursion' = FALSE
  /\ forbid_recursion' = FALSE
  /\ forbid_loops' = FALSE
  /\ reg' = [r \in RegNames |-> 0]
  /\ mem' = NewMem(0)
  /\ asm' = <<>>
  /\ sym_table' = [x \in {} |-> 0]
  /\ n_flag' = FALSE
  /\ z_flag' = FALSE
  /\ pc' = 0
  /\ cycle_count' = 0
  /\ execute_count' = 0
  /\ ld_cycle' = -1
  /\ ld_dst' = "-1"
  /\ flag_cycle' = -1
  /\ last_dst' = "-1"
  /\ linked_labels' = {}
  /\ phase' = "reset"
  /\ UNCHANGED <<check_dead_code, recursive_labels, original_break, brk,
                 label_hit_counts, recursed_labels, stdout, err, host_calls,
                 replay, lines>>

----------------------------------------------------------------------------
(* The programs explored.  Each is a source file: the directive lines of   *)
(* its data section and the lines of its code section.                     *)

\* the file of a program: .data, its directive lines, main:, its code lines
Text(data, code) ==
  <<SrcLine(".data", <<>>)>> \o [i \in 1..Len(data) |-> SrcLine("data", <<data[i]>>)]
  \o <<SrcLine("main:", <<>>)>> \o [i \in 1..Len(code) |-> SrcLine("code", <<code[i]>>)]

Program(data, code) == [data |-> data, code |-> code, lines |-> Text(data, code)]

\* buf: .byte 1,2,0,0,0,0,0,0,4,255,0,0,0,0,0,0
BufData == <<Dir("byte", "buf", <<1, 2, 0, 0, 0, 0, 0, 0, 4, 255, 0, 0, 0, 0, 0, 0>>, "")>>

\* len(mem) after parse of BufData, which is also original_break
Top == parse(BufData).original_break

Exit == <<MovI("x8", SYS_EXIT), Svc>>

\* one load or store at address a, in each addressing form; stores write v
MemAddrs == {STACK_SIZE - 2, STACK_SIZE - 1, STACK_SIZE} \cup {Top - k : k \in 0..TopReach}

MemCode(op, form, a, v) ==
  (IF op \in StoreOps THEN <<MovI("x2", v)>> ELSE <<>>)
  \o (CASE form = "base" -> <<MovI("x1", a), Mem(op, form, "x2", "x1", "", 0)>>
        [] form = "imm" -> <<MovI("x1", a - 8), Mem(op, form, "x2", "x1", "", 8)>>
        [] form = "reg" -> <<MovI("x1", a - 8), MovI("x3", 8),
                              Mem(op, form, "x2", "x1", "x3", 0)>>)

\* the integers explored stay below 2^31: an unsigned load at a is one whose
\* bytes decode below that
Loadable(op, a) ==
  LET bs == Slice(parse(BufData).mem, a, a + Width(op))
  IN SignedLoad(op)
     \/ \A i \in 1..Len(bs) : (i > 4 => bs[i] = 0) /\ (i = 4 => bs[i] < 128)

MemPrograms ==
  {Program(BufData, MemCode(op, form, a, v)) :
     op \in StoreOps, form \in {"base", "imm", "reg"}, a \in MemAddrs, v \in {-1, 258}}
  \cup
  {Program(BufData, MemCode(t[1], t[2], t[3], 0)) :
     t \in {u \in LoadOps \X {"base", "imm", "reg"} \X MemAddrs : Loadable(u[1], u[3])}}

\* BrkCalls brk syscalls in a row
BrkArgs == {Top - 1, Top, Top + 1, Top + 2, Top + PAGE_SIZE,
            Top + 3 * PAGE_SIZE + 1, Top + HEAP_SIZE}

RECURSIVE BrkCode(_)
BrkCode(args) ==
  IF args = <<>> THEN <<>>
  ELSE <<MovI("x0", Head(args)), Svc>> \o BrkCode(Tail(args))

BrkPrograms ==
  {Program(BufData, <<MovI("x8", SYS_BRK)>> \o BrkCode(args)) :
     args \in [1..BrkCalls -> BrkArgs]}

\* the other syscalls, with their three argument registers
SysPrograms ==
  {Program(BufData, <<MovI("x0", a), MovI("x1", b), MovI("x2", c), MovI("x8", n), Svc>>) :
     a \in {1, Top - 1}, b \in {-1, 2, Top - 1, Top - 8}, c \in {-1, 0, 2, 3},
     n \in {SYS_READ, SYS_WRITE, SYS_GETRANDOM}}
  \cup {Program(BufData, <<MovI("x8", 1), Svc>>)}

\* one move, shift, arithmetic, compare or logic instruction on a and b,
\* after a compare that sets the flags
AluOps == AddSubOps \cup LogicOps \cup DivOps \cup ShiftOps \cup {"mul", "mov", "cmp"}

AluLine(op, form, rd) ==
  CASE op = "cmp" -> IF form = "imm" THEN CmpI("x1", 2) ELSE CmpR("x1", "x2")
    [] op = "mov" -> IF form = "imm" THEN MovI(rd, 2) ELSE MovR(rd, "x1")
    [] OTHER -> IF form = "imm" THEN AluI(op, rd, "x1", 2) ELSE AluR(op, rd, "x1", "x2")

AluPrograms ==
  {Program(<<>>, <<MovI("x1", a), MovI("x2", b), CmpI("x2", 1), AluLine(op, form, rd)>>) :
     op \in AluOps, form \in {"imm", "reg"}, rd \in {"x3", "xzr"},
     a \in {-3, -2, 0, 2, 3}, b \in {-2, -1, 0, 1, 2}}

\* lsl and lsr mask to 64 bits: a negative operand leaves the model's integers
InRange(p) ==
  \A i \in 1..Len(p.code) :
    p.code[i].op \in {"lsl", "lsr"} => p.code[1].imm >= 0

\* the sum of 1..10
LoopSum ==
  <<MovI("x0", 0), MovI("x1", 1), Label("loop"),
    AluR("add", "x0", "x0", "x1"), AluI("add", "x1", "x1", 1),
    CmpI("x1", 10), Br("b.le", "loop")>> \o Exit

BranchPrograms ==
  {Program(<<>>, <<MovI("x1", a), CmpI("x1", 0), Br(op, lab), MovI("x0", 1),
                   Label(lab)>> \o Exit) :
     op \in CondOps, a \in {-1, 0, 1}, lab \in {"skip", "display"}}
  \cup
  {Program(<<>>, <<MovI("x1", a), Cb(op, "x1", lab), MovI("x0", 1),
                   Label(lab)>>) : op \in CbOps, a \in {0, 1}, lab \in {"skip", "display"}}
  \cup
  {Program(<<>>, <<CmpI("x1", a)>> \o [i \in 1..gap |-> MovI("x9", 0)]
                 \o <<Br(op, "skip"), MovI("x0", 1), Label("skip")>>) :
     op \in CondOps, a \in {0, 1}, gap \in 1..2}
  \cup
  {Program(<<>>, <<Br("b", "skip"), MovI("x0", 1), Label("skip")>>),
   Program(<<>>, <<Br("b", "display"), MovI("x0", 1), Label("display")>>),
   Program(<<>>, <<Br("bl", "clr")>> \o Exit \o <<Label("clr"), AluI("adds", "x0", "x0", 1), BrLr>>),
   Program(<<>>, <<Br("bl", "f")>> \o Exit \o <<Label("f"), AluI("adds", "x0", "x0", 1), BrLr>>),
   Program(<<>>, LoopSum)}

\* the stack in use, a symbol loaded, and the lines that make a run fail
OtherPrograms ==
  {Program(BufData, <<AluI("sub", "sp", "sp", 16), MovI("x2", 258),
                      Mem("stur", "base", "x2", "sp", "", 0),
                      Mem("ldur", "base", "x4", "sp", "", 0),
                      LdVar("x5", "buf"), Mem("ldursb", "imm", "xzr", "x5", "", 9),
                      AluI("add", "sp", "sp", 16)>>),
   Program(<<>>, <<AluI("sub", "sp", "sp", 8), MovI("x0", 0)>>),
   Program(<<>>, <<AluI("sub", "sp", "sp", 4096), MovI("x0", 0)>>),
   Program(<<>>, <<AluI("add", "sp", "sp", 16), MovI("x0", 0)>>),
   Program(<<>>, <<AluI("sub", "sp", "sp", 8), Label("end")>>),
   Program(<<>>, <<MovI("lr", -1), BrLr>>),
   Program(<<>>, <<MovI("lr", 3), CmpI("lr", 3), BrLr>>),
   Program(<<>>, <<MovI("lr", 3), BrLr, MovI("x0", 1)>>),
   Program(<<>>, <<MovI("lr", 2), BrLr, MovI("x0", 1), MovI("x0", 2)>>),
   Program(<<>>, <<MovI("x1", 4), MovI("x2", 1), AluR("asr", "x3", "x1", "x2")>>),
   Program(<<>>, <<Br("b", "nowhere")>>)}

\* d: .dword v
DwordData(v) == <<Dir("dword", "d", <<v>>, "")>>

\* the values declared with .dword
DwordValues == {-300, -2, -1, 0, 1, 258, 65536}

\* data and bss sections of each directive kind; the last three make parse fail
DataSections ==
  {<<>>, BufData,
   <<Dir("asciz", "s", <<104, 105, 10>>, ""), Dir("len", "l", <<>>, "s")>>,
   <<Dir("space", "z", <<3>>, "")>>,
   <<Dir("assign", "n", <<5>>, ""), Dir("space", "z", <<>>, "n"),
     Dir("assign", "m", <<>>, "n")>>,
   <<Dir("word", "w", <<-2, 7>>, ""), Dir("hword", "h", <<258, -1>>, "")>>,
   <<Dir("byte", "b", <<255, -128, 7>>, ""), Dir("dword", "d", <<-1, 9>>, "")>>,
   <<Dir("space", "z", <<-1>>, "")>>,
   <<Dir("hword", "h", <<65535>>, "")>>,
   <<Dir("len", "l", <<>>, "s")>>}
  \cup {DwordData(v) : v \in DwordValues}

\* a data section, and a program that loads the first dword of d
DataPrograms ==
  {Program(d, Exit) : d \in DataSections}
  \cup {Program(DwordData(v), <<LdVar("x1", "d"), Mem("ldur", "base", "x2", "x1", "", 0)>>) :
          v \in DwordValues}

\* a load / store at address a in one addressing form: the registers set up,
\* then the instruction with rt = x2
MemSetup(form, a) ==
  CASE form = "base" -> <<MovI("x1", a)>>
    [] form = "imm" -> <<MovI("x1", a - 8)>>
    [] form = "reg" -> <<MovI("x1", a - 8), MovI("x3", 8)>>

MemLine(op, form) ==
  CASE form = "base" -> Mem(op, form, "x2", "x1", "", 0)
    [] form = "imm" -> Mem(op, form, "x2", "x1", "", 8)
    [] form = "reg" -> Mem(op, form, "x2", "x1", "x3", 0)

\* a load at a, then the store of the same width of the loaded register at a
RoundTripPrograms ==
  {Program(BufData, MemSetup(t[3], t[4]) \o <<MemLine(t[1], t[3]), MemLine(t[2], t[3])>>) :
     t \in {u \in LoadOps \X StoreOps \X {"base", "imm", "reg"} \X MemAddrs :
              Width(u[1]) = Width(u[2]) /\ Loadable(u[1], u[4])}}

\* an instruction that reads x1, which holds the address of buf, as an operand,
\* as an address or as the stored register
HazardLines ==
  {AluI(op, "x3", "x1", 1) : op \in AddSubOps \cup LogicOps \cup ShiftOps}
  \cup {AluR(op, "x3", "x1", "x2") :
          op \in AddSubOps \cup LogicOps \cup DivOps \cup {"lsr", "lsl", "mul"}}
  \cup {Mem(op, "base", "x2", "x1", "", 0) : op \in LoadOps \cup StoreOps}
  \cup {Mem(op, "imm", "x2", "x1", "", 8) : op \in LoadOps \cup StoreOps}
  \cup {Mem(op, "reg", "x2", "x1", "x4", 0) : op \in LoadOps \cup StoreOps}
  \cup {Mem(op, "base", "x1", "sp", "", 0) : op \in StoreOps}
  \cup {Cb(op, "x1", "end") : op \in CbOps}
  \cup {MovR("x3", "x1"), CmpI("x1", 1), CmpR("x1", "x2")}

\* x1 is loaded, HazardGap unrelated instructions follow, then x1 is read
HazardPrograms ==
  {Program(BufData, <<MovI("x2", 1), LdVar("x1", "buf")>>
                    \o [i \in 1..gap |-> MovI("x9", 0)]
                    \o <<l, Label("end")>>) :
     gap \in 0..HazardGap, l \in HazardLines}

\* a file given by its lines
Source(ls) == [data |-> Read(ls).dirs, code |-> Read(ls).asm, lines |-> ls]

\* files with a block comment: around an instruction, around a directive,
\* and around a line that holds .data, .bss or main:
CommentPrograms ==
  LET open == SrcLine("/*", <<>>)
      close == SrcLine("*/", <<>>)
      code(l) == SrcLine("code", <<l>>)
      buf == SrcLine("data", <<Dir("space", "buf", <<8>>, "")>>)
  IN {Source(<<SrcLine("main:", <<>>), code(MovI("x0", 1))>> \o <<open, c, close>>
             \o <<code(MovI("x1", 2))>>) :
        c \in {code(MovI("x0", 5)), SrcLine(".data", <<>>), SrcLine(".bss", <<>>),
               SrcLine("main:", <<>>)}}
     \cup {Source(<<SrcLine(".data", <<>>)>> \o <<open, c, close>>
                  \o <<buf, SrcLine("main:", <<>>), code(MovI("x0", 1))>>) :
             c \in {buf, SrcLine(".bss", <<>>)}}

Programs ==
  {p \in CommentPrograms \cup MemPrograms \cup BrkPrograms \cup SysPrograms \cup AluPrograms
         \cup BranchPrograms \cup OtherPrograms \cup HazardPrograms
         \cup DataPrograms \cup RoundTripPrograms : InRange(p)}

\* programs for check_static_rules(): no code, branches back to a label from the
\* middle and from the last line, a forward branch, a label declared twice, a
\* mul, a call of a label the source does not declare, br lr before the end
StaticPrograms ==
  {Program(<<>>, <<>>),
   Program(<<>>, <<Label("top"), MovI("x1", 0), Cb("cbnz", "x1", "top"), MovI("x0", 1)>>),
   Program(<<>>, <<Label("top"), MovI("x1", 0), Cb("cbnz", "x1", "top")>>),
   Program(<<>>, <<Label("back"), MovI("x1", 1), Cb("cbz", "x1", "back")>>),
   Program(<<>>, <<Label("top"), MovI("x1", 1), CmpI("x1", 0), Br("b.eq", "top")>>),
   Program(<<>>, <<Br("b", "start"), Label("top")>> \o Exit
                 \o <<Label("start"), Br("b", "top")>>),
   Program(<<>>, <<Br("b", "start"), Label("top")>> \o Exit
                 \o <<Label("start"), Br("b", "top"), MovI("x0", 1)>>),
   Program(<<>>, <<Br("b", "skip"), MovI("x0", 1), Label("skip")>>),
   Program(<<>>, <<Label("a"), MovI("x0", 1), Label("a")>>),
   Program(<<>>, <<MovI("x1", 2), AluR("mul", "x0", "x1", "x1")>>),
   Program(<<>>, <<Br("bl", "ext"), MovI("x0", 1)>>),
   Program(<<>>, <<MovI("x0", 1), Br("b", "ext"), MovI("x0", 2)>>),
   Program(<<>>, <<MovI("x1", 0), Cb("cbz", "x1", "ext"), Label("end")>>),
   Program(<<>>, <<MovI("x0", 1), Br("bl", "display"), MovI("x0", 2)>>),
   Program(<<>>, <<Br("bl", "f")>> \o Exit \o <<Label("f"), BrLr, Label("g")>>)}

\* the rule variables as the module defines them
DefaultRules ==
  [forbidden_instructions |-> {}, forbid_loops |-> FALSE,
   check_dead_code |-> FALSE, linked_labels |-> {},
   forbid_recursion |-> FALSE, require_recursion |-> FALSE,
   recursive_labels |-> {}]

\* the rule variables a grading script assigns before run()
RuleSettings ==
  [forbidden_instructions : {{}, {"mul"}}, forbid_loops : BOOLEAN,
   check_dead_code : BOOLEAN, linked_labels : {{}, {"ext", "display"}},
   forbid_recursion : {FALSE}, require_recursion : {FALSE},
   recursive_labels : {{}}]

\* f calls itself x1 times and the run ends at done; f is called once and
\* returns to an exit; g is called from a line that lr does not hold
RecursionPrograms ==
  {Program(<<>>, <<MovI("x1", n), Label("f"), Cb("cbz", "x1", "done"),
                   AluI("sub", "x1", "x1", 1), Br("bl", "f"), Label("done")>>) :
     n \in 0..2}
  \cup
  {Program(<<>>, <<Br("bl", "f")>> \o Exit \o <<Label("f"), AluI("adds", "x0", "x0", 1), BrLr>>),
   Program(<<>>, <<MovI("x0", 0), Br("bl", "g")>> \o Exit
                 \o <<Label("g"), AluI("adds", "x0", "x0", 1), BrLr>>)}

\* the recursion policy a grading script assigns before run()
RecursionSettings ==
  [forbidden_instructions : {{}}, forbid_loops : {FALSE},
   check_dead_code : {FALSE}, linked_labels : {{}},
   forbid_recursion : BOOLEAN, require_recursion : BOOLEAN,
   recursive_labels : {{}, {"f"}, {"g"}}]

\* a source file and the rule variables it is run under
Setups ==
  {[prog |-> p, rules |-> DefaultRules] : p \in Programs}
  \cup {[prog |-> p, rules |-> r] : p \in StaticPrograms, r \in RuleSettings}
  \cup {[prog |-> p, rules |-> r] : p \in RecursionPrograms, r \in RecursionSettings}

----------------------------------------------------------------------------
(* The simulator after main() has parsed a source file, and its run *)

\* the state main() reaches with the source file and rules of setup s
Loaded(s) ==
    LET p == s.prog
        st == parse(Read(p.lines).dirs)
    IN /\ st.ok
       /\ lines = p.lines
       /\ asm = Read(p.lines).asm
       /\ mem = st.mem
       /\ sym_table = st.sym_table
       /\ original_break = st.original_break
       /\ brk = st.brk
       /\ reg = [r \in RegNames |-> IF r = "sp" THEN st.sp ELSE 0]
       /\ pc = 0
       /\ n_flag = FALSE
       /\ z_flag = FALSE
       /\ label_hit_counts = [l \in {} |-> 0]
       /\ linked_labels = s.rules.linked_labels
       /\ recursed_labels = {}
       /\ forbidden_instructions = s.rules.forbidden_instructions
       /\ forbid_recursion = s.rules.forbid_recursion
       /\ require_recursion = s.rules.require_recursion
       /\ forbid_loops = s.rules.forbid_loops
       /\ check_dead_code = s.rules.check_dead_code
       /\ recursive_labels = s.rules.recursive_labels
       /\ cycle_count = 0
       /\ execute_count = 0
       /\ ld_cycle = -1
       /\ ld_dst = "-1"
       /\ flag_cycle = -1
       /\ last_dst = "-1"
       /\ stdout = <<>>
       /\ phase = "parsed"
       /\ err = "none"
       /\ host_calls = <<>>

\* one run: nothing is recorded
Init ==
  \E s \in Setups :
    /\ Loaded(s)
    /\ replay = [pass |-> 0, trace |-> <<>>, first |-> <<>>, mem0 |-> NewMem(0)]

Next ==
  \/ RunStart
  \/ RunStackError
  \/ RunLabel
  \/ RunFinish
  \/ ExecLoad
  \/ ExecLoadVar
  \/ ExecStore
  \/ ExecMov
  \/ ExecShift
  \/ ExecAddSub
  \/ ExecMul
  \/ ExecDiv
  \/ ExecCmp
  \/ ExecLogic
  \/ ExecCb
  \/ ExecB
  \/ ExecBCond
  \/ ExecBl
  \/ ExecBr
  \/ ExecUnsupported
  \/ SvcExit
  \/ SvcWrite
  \/ SvcRead
  \/ SvcBrk
  \/ SvcGetrandom
  \/ SvcUnsupported
  \/ Reset

Spec == Init /\ [][Next]_vars

----------------------------------------------------------------------------
(* The same source file run twice, from two hazard states *)

\* hazard states the second run starts from
HazardStarts ==
  {[cycle_count |-> 7, ld_cycle |-> 6, ld_dst |-> "x1", flag_cycle |-> 6,
    last_dst |-> "x1"],
   [cycle_count |-> 3, ld_cycle |-> 3, ld_dst |-> "x2", flag_cycle |-> -1,
    last_dst |-> "x3"]}

\* the run reads no standard input and no random bytes
ReadsNothing ==
  \A i \in 1..Len(asm) :
    asm[i] # MovI("x8", SYS_READ) /\ asm[i] # MovI("x8", SYS_GETRANDOM)

\* the first run is recorded from the state parse() leaves
InitTwice ==
  \E s \in Setups :
    /\ Loaded(s)
    /\ replay = [pass |-> 1, trace |-> <<>>, first |-> <<>>,
                 mem0 |-> parse(Read(s.prog.lines).dirs).mem]

\* the first run is over: the machine is put back as parse() left it, but for
\* the hazard state, and the second run starts
Rewind ==
  /\ replay.pass = 1
  /\ phase \in {"done", "failed"}
  /\ ReadsNothing
  /\ \E h \in HazardStarts :
       /\ cycle_count' = h.cycle_count
       /\ ld_cycle' = h.ld_cycle
       /\ ld_dst' = h.ld_dst
       /\ flag_cycle' = h.flag_cycle
       /\ last_dst' = h.last_dst
  /\ replay' = [replay EXCEPT !.pass = 2, !.first = replay.trace, !.trace = <<>>]
  /\ mem' = replay.mem0
  /\ reg' = [r \in RegNames |-> IF r = "sp" THEN STACK_SIZE - 1 ELSE 0]
  /\ pc' = 0
  /\ n_flag' = FALSE
  /\ z_flag' = FALSE
  /\ execute_count' = 0
  /\ brk' = original_break
  /\ label_hit_counts' = [l \in {} |-> 0]
  /\ recursed_labels' = {}
  /\ stdout' = <<>>
  /\ host_calls' = <<>>
  /\ phase' = "parsed"
  /\ err' = "none"
  /\ UNCHANGED progVars

NextTwice == Next \/ Rewind

SpecTwice == InitTwice /\ [][NextTwice]_vars

----------------------------------------------------------------------------
(* Properties of memory accesses *)

\* the instruction most recently executed by a run that is still going
Done(ops) ==
  /\ phase = "running"
  /\ pc > 0
  /\ pc <= Len(asm)
  /\ ~IsLabelLine(asm[pc])
  /\ asm[pc].op \in ops

\* a load or store is about to execute
Accessing == Executing("load") \/ Executing("store")

\* the window  sp <= addr  and  addr + W <= len(mem)
InWindow(l) ==
  reg["sp"] <= Addr(l) /\ Addr(l) + Width(l.op) <= mem.len

\* C1: every load and store of width W raises the out-of-bounds error exactly
\* when its address is outside the window sp <= addr, addr + W <= len(mem)
C1_BoundsExact ==
  [][Accessing =>
       ((err' = "out of bounds memory access") <=> ~InWindow(Line))]_vars

C3_StoreFrame ==
  [][(Executing("store") /\ phase' = "running") =>
       \A j \in 0..Max(mem.len, mem'.len) :
         (j < Addr(Line) \/ j >= Addr(Line) + Width(Line.op)) =>
           /\ (j < mem'.len) <=> (j < mem.len)
           /\ MemByte(mem', j) = MemByte(mem, j)]_vars

\* sturb of 258 at the first byte of buf: the byte is rewritten from 1 to 2 and
\* the next byte keeps its 2
C3_Witness ==
  /\ Done({"sturb"})
  /\ MemByte(mem, STACK_SIZE) = 2
  /\ MemByte(mem, STACK_SIZE + 1) = 2
  /\ MemByte(mem, STACK_SIZE + 8) = 4

----------------------------------------------------------------------------
(* Properties of the brk syscall *)

\* the heap is empty and brk is asked for one byte
BrkFirstByte ==
  /\ Syscall(SYS_BRK)
  /\ mem.len = original_break
  /\ reg["x0"] = original_break + 1

\* the state that call leaves, with brk now asked for original_break
BrkBackToStart ==
  /\ Syscall(SYS_BRK)
  /\ mem.len = original_break + PAGE_SIZE
  /\ brk = original_break + 1
  /\ reg["x0"] = original_break

\* C4 as stated: from an empty heap brk(original_break + 1) returns
\* original_break + 4096 in x0 and grows memory by 4096 bytes, and a following
\* brk(original_break) shrinks memory back to original_break bytes
C4_ReturnsPageEnd ==
  [][/\ BrkFirstByte =>
          /\ reg'["x0"] = original_break + 4096
          /\ mem'.len = mem.len + 4096
     /\ BrkBackToStart => mem'.len = original_break]_vars

\* C4 amended: from an empty heap brk(original_break + 1) returns
\* original_break + 1 in x0, which is the new brk, and grows memory by 4096
\* bytes; a following brk(original_break) shrinks memory back to
\* original_break bytes
C4_ReturnsRequest ==
  [][/\ BrkFirstByte =>
          /\ phase' = "running"
          /\ reg'["x0"] = original_break + 1
          /\ brk' = original_break + 1
          /\ mem'.len = mem.len + 4096
     /\ BrkBackToStart =>
          /\ phase' = "running"
          /\ mem'.len = original_break]_vars

\* brk(original_break + 1) then brk(original_break) have both returned
C4_Witness ==
  /\ Done({"svc"})
  /\ pc = 5
  /\ asm[2] = MovI("x0", original_break + 1)
  /\ asm[4] = MovI("x0", original_break)
  /\ reg["x8"] = SYS_BRK
  /\ reg["x0"] = original_break
  /\ mem.len = original_break

\* C5: a successful brk(new_brk) with new_brk > original_break leaves the heap
\* at the page boundary above new_brk - original_break, whatever its size
\* before, and sets brk to new_brk
C5_HeapIsRoundedRequest ==
  [][(Syscall(SYS_BRK) /\ reg["x0"] > original_break /\ phase' = "running") =>
       LET size == reg["x0"] - original_break
       IN /\ mem'.len - original_break = ((size \div 4096) + 1) * 4096
          /\ brk' = reg["x0"]]_vars

\* C6: the heap is never above 16 KiB, and a request whose page-rounded size
\* is above 16 KiB fails
C6_HeapCap ==
  [][/\ mem'.len - original_break <= 16384
     /\ (/\ Syscall(SYS_BRK)
         /\ reg["x0"] > original_break
         /\ (((reg["x0"] - original_break) \div 4096) + 1) * 4096 > 16384)
        => phase' = "failed"]_vars

\* C7: after a brk syscall that does not fail x0 is the resulting brk; with an
\* argument below original_break, brk and memory stay and x0 is the current brk
C7_ReturnsBrk ==
  [][(Syscall(SYS_BRK) /\ phase' = "running") =>
       /\ reg'["x0"] = brk'
       /\ reg["x0"] < original_break =>
            /\ brk' = brk
            /\ mem' = mem
            /\ reg'["x0"] = brk]_vars

\* a heap was allocated, then brk was called with original_break - 1
C7_Witness ==
  /\ Done({"svc"})
  /\ pc > 1
  /\ asm[pc - 1] = MovI("x0", original_break - 1)
  /\ reg["x8"] = SYS_BRK
  /\ brk > original_break
  /\ reg["x0"] = brk
  /\ mem.len > original_break

----------------------------------------------------------------------------
(* Properties of xzr and the flags *)

\* C8: xzr is 0 whenever run() fetches a line, an instruction with xzr as its
\* destination included
C8_XzrZero == reg["xzr"] = 0

\* adds xzr,x1,x2 with a negative sum has executed
C8_Witness ==
  /\ Done({"adds"})
  /\ asm[pc].rd = "xzr"
  /\ asm[pc].form = "reg"
  /\ reg["x1"] + reg["x2"] < 0
  /\ n_flag
  /\ reg["xzr"] = 0

\* the mnemonics that carry the s suffix
SForms == {"adds", "subs", "ands", "orrs", "eors"}

\* C9: after an s form the flags are N = result < 0 and Z = result = 0 for the
\* value written to rd; after cmp they are those of rn minus the second operand
C9_FlagsFromResult ==
  [][/\ (Fetching /\ StackOk /\ ~IsLabelLine(Line) /\ Line.op \in SForms) =>
          LET result == CASE Line.op = "adds" -> reg[Line.rn] + Operand2(Line)
                          [] Line.op = "subs" -> reg[Line.rn] - Operand2(Line)
                          [] Line.op = "ands" -> BitAnd(reg[Line.rn], Operand2(Line))
                          [] Line.op = "orrs" -> BitOr(reg[Line.rn], Operand2(Line))
                          [] Line.op = "eors" -> BitXor(reg[Line.rn], Operand2(Line))
          IN /\ phase' = "running"
             /\ Line.rd # "xzr" => reg'[Line.rd] = result
             /\ n_flag' = (result < 0)
             /\ z_flag' = (result = 0)
     /\ (Executing("cmp") /\ phase' = "running") =>
          LET result == reg[Line.rn] - Operand2(Line)
          IN /\ n_flag' = (result < 0)
             /\ z_flag' = (result = 0)]_vars

\* subs x3,x1,x2 with a negative difference has executed
C9_Witness ==
  /\ Done({"subs"})
  /\ asm[pc].rd = "x3"
  /\ asm[pc].form = "reg"
  /\ reg["x3"] < 0
  /\ reg["x3"] = reg["x1"] - reg["x2"]
  /\ n_flag
  /\ ~z_flag

\* C10: a step of run() that changes N or Z executes cmp or an s form
C10_FlagWriters ==
  [][(phase = "running" /\ (n_flag' # n_flag \/ z_flag' # z_flag)) =>
       /\ Fetching
       /\ ~IsLabelLine(Line)
       /\ Line.op \in SForms \cup {"cmp"}]_vars

\* add x3,x1,x2 has written 0 to x3 and Z is still clear
C10_Witness ==
  /\ Done({"add"})
  /\ asm[pc].rd = "x3"
  /\ asm[pc].form = "reg"
  /\ reg["x1"] # 0
  /\ reg["x3"] = 0
  /\ ~z_flag

----------------------------------------------------------------------------
(* Properties of the performance counters *)

\* run() is about to call execute(line)
Calling == Fetching /\ StackOk /\ ~IsLabelLine(Line)

\* C11: every call of execute adds exactly 1 to execute_count and at least 1
\* to cycle_count, whatever the instruction and the hazard state, and
\* cycle_count is never below execute_count
C11_CountersAdvance ==
  [][/\ Calling =>
          /\ execute_count' = execute_count + 1
          /\ cycle_count' >= cycle_count + 1
     /\ cycle_count' >= execute_count']_vars

\* sub x3,x1,1 has executed two cycles after the load of x1 and was charged the
\* distance to the load
C11_Witness ==
  /\ Done({"sub"})
  /\ asm[pc].rn = "x1"
  /\ ld_dst = "x1"
  /\ execute_count = 4
  /\ cycle_count = execute_count + 2

----------------------------------------------------------------------------
(* Properties of parse and of the data it lays out *)

\* C12: when parse has returned, original_break, brk and len(mem) are equal
\* and sp is STACK_SIZE - 1, whatever the data and bss sections declare
C12_AfterParse ==
  phase = "parsed" =>
    /\ original_break = brk
    /\ brk = mem.len
    /\ reg["sp"] = STACK_SIZE - 1
    /\ reg["sp"] = 4095

\* parse has laid out  n = 5,  z: .space n,  m = n
C12_Witness ==
  /\ phase = "parsed"
  /\ {"n", "z", "m"} \subseteq DOMAIN sym_table
  /\ sym_table["z"] = STACK_SIZE
  /\ sym_table["m"] = 5
  /\ mem.len = STACK_SIZE + 5

\* memory and symbols are those of a program whose data is  d: .dword v,
\* and ldur is about to load the 8 bytes of d
LoadingDword(v) ==
  /\ Executing("load")
  /\ Line.op = "ldur"
  /\ mem = parse(DwordData(v)).mem
  /\ sym_table = parse(DwordData(v)).sym_table
  /\ Addr(Line) = sym_table["d"]

\* C13: for every v of the signed 64-bit range, negative ones included,
\* d: .dword v  followed by ldur of the 8 bytes of d leaves v in the register
C13_DwordRoundTrip ==
  [][\A v \in DwordValues :
       LoadingDword(v) => (phase' = "running" /\ reg'[Line.rd] = v)]_vars

\* a store is about to execute right after the load of the same width, same
\* register and same address operands
StoringBack ==
  /\ Executing("store")
  /\ pc > 0
  /\ Handler(asm[pc]) = "load"
  /\ Width(asm[pc].op) = Width(Line.op)
  /\ asm[pc] = [Line EXCEPT !.op = asm[pc].op]
  /\ ld_dst = Line.rd
  /\ ld_cycle = cycle_count - 1

\* C14: a load of width W at A followed at once by the store of the same width
\* of the loaded register at A succeeds and leaves the register and the W
\* bytes at A as they were after the load
C14_LoadStoreRoundTrip ==
  [][StoringBack =>
       /\ phase' = "running"
       /\ reg'[Line.rd] = reg[Line.rd]
       /\ Slice(mem', Addr(Line), Addr(Line) + Width(Line.op))
            = Slice(mem, Addr(Line), Addr(Line) + Width(Line.op))]_vars

----------------------------------------------------------------------------
(* Properties of arithmetic *)

\* |x|
Abs(x) == IF x < 0 THEN -x ELSE x

\* the quotient of a by b truncated toward zero
TruncDiv(a, b) ==
  IF (a < 0) = (b < 0) THEN Abs(a) \div Abs(b) ELSE -(Abs(a) \div Abs(b))

\* C15: udiv and sdiv with rm # 0 set rd to the quotient of rn by rm truncated
\* toward zero, operands of opposite sign included
C15_DivTruncates ==
  [][(Executing("div") /\ reg[Line.rm] # 0 /\ Line.rd # "xzr") =>
       /\ phase' = "running"
       /\ reg'[Line.rd] = TruncDiv(reg[Line.rn], reg[Line.rm])]_vars

----------------------------------------------------------------------------
(* Properties of control flow *)

\* the index in the stream of the line  lab:
LabelAt(lab) ==
  CHOOSE i \in 0..(Len(asm) - 1) : asm[i + 1] = Label(lab)

\* a conditional or register-compare branch is about to execute, and its
\* target is a label of the stream
Branching ==
  /\ Executing("bcond") \/ Executing("cb")
  /\ \E i \in 1..Len(asm) : asm[i] = Label(Line.lab)

\* the predicate of each branch on the flags, or on rn
Predicate(l) ==
  CASE l.op = "b.eq" -> z_flag
    [] l.op = "b.ne" -> ~z_flag
    [] l.op = "b.lt" -> n_flag
    [] l.op = "b.le" -> n_flag \/ z_flag
    [] l.op = "b.gt" -> ~z_flag /\ ~n_flag
    [] l.op = "b.ge" -> ~n_flag
    [] l.op = "b.mi" -> n_flag
    [] l.op = "b.pl" -> ~n_flag \/ z_flag
    [] l.op = "cbz" -> reg[l.rn] = 0
    [] l.op = "cbnz" -> reg[l.rn] # 0

\* C16: a conditional branch, cbz or cbnz is taken iff its predicate holds;
\* taken, execution goes on after the target label, otherwise at the next line
C16_BranchTaken ==
  [][Branching =>
       /\ phase' = "running"
       /\ pc' = IF Predicate(Line) THEN LabelAt(Line.lab) + 1 ELSE pc + 1]_vars

\* C17: bl <label> at index p sets lr to p and goes on after the label; br lr
\* with lr = p goes on at p + 1, the line after the bl
C17_CallAndReturn ==
  [][/\ (/\ Executing("bl")
         /\ \E i \in 1..Len(asm) : asm[i] = Label(Line.lab))
        => /\ phase' = "running"
           /\ reg'["lr"] = pc
           /\ pc' = LabelAt(Line.lab) + 1
     /\ (/\ Executing("br")
         /\ reg["lr"] \in 0..(Len(asm) - 1)
         /\ asm[reg["lr"] + 1].op = "bl")
        => /\ phase' = "running"
           /\ reg'["lr"] = reg["lr"]
           /\ pc' = reg["lr"] + 1]_vars

\* a step of a branch line that goes on after its target label
Jumping ==
  /\ Executing("b") \/ Executing("bcond") \/ Executing("cb") \/ Executing("bl")
  /\ \E i \in 1..Len(asm) : asm[i] = Label(Line.lab)
  /\ phase' = "running"
  /\ pc' = LabelAt(Line.lab) + 1
  /\ pc' # pc + 1

\* a step of run() over a label line
FallingOnto == Fetching /\ StackOk /\ IsLabelLine(Line)

\* C18: the hit count of a label grows by one each time control reaches it, by
\* falling onto its line, by a taken b, b.<cond>, cbz or cbnz, or by bl; the
\* loop-sum program ends with x0 = 55 and 10 hits of loop
C18_HitCounts ==
  [][/\ (Jumping \/ FallingOnto) =>
          label_hit_counts'[Line.lab] = label_hit_counts[Line.lab] + 1
     /\ (asm = LoopSum /\ phase' = "done") =>
          /\ reg'["x0"] = 55
          /\ label_hit_counts'["loop"] = 10]_vars

\* line i of asm is a b, b.<cond>, cbz or cbnz whose target label is declared
\* on an earlier line
BackBranch(i) ==
  /\ ~IsLabelLine(asm[i])
  /\ asm[i].op \in {"b"} \cup CondOps \cup CbOps
  /\ \E j \in 1..(i - 1) : asm[j] = Label(asm[i].lab)

Defect ==
  \/ Len(asm) = 0
  \/ \E i \in 1..Len(asm) :
       ~IsLabelLine(asm[i]) /\ asm[i].op \in forbidden_instructions
  \/ \E i, j \in 1..Len(asm) :
       i # j /\ IsLabelLine(asm[i]) /\ asm[i] = asm[j]
  \/ \E i \in 1..Len(asm) :
       /\ ~IsLabelLine(asm[i])
       /\ asm[i].op \in {"b", "bl"} \cup CondOps \cup CbOps
       /\ \A j \in 1..Len(asm) : asm[j] # Label(asm[i].lab)
       /\ asm[i].lab \notin linked_labels

\* C20: check_static_rules(), called by run(), fails for every program with a
\* defect, and with forbid_loops and check_dead_code unset it fails for no
\* other program
C20_StaticRules ==
  [][(phase = "parsed" /\ phase' # "reset") =>
       /\ Defect => phase' = "failed"
       /\ (~forbid_loops /\ ~check_dead_code) => (phase' = "failed" <=> Defect)]_vars

\* check_static_rules() has refused a call of a label that is neither declared
\* nor linked, with the loop and dead-code rules off
C20_Witness ==
  /\ phase = "failed"
  /\ err = "nonexistent label"
  /\ asm[1] = Br("bl", "ext")
  /\ linked_labels = {}
  /\ ~forbid_loops
  /\ ~check_dead_code

\* C21: when the loop of run() has ended and recursive_labels is not empty
\* and not a subset of the labels seen to recurse, run() fails, also when no
\* label was seen to recurse
C21_RequiredLabels ==
  [][(/\ phase = "running"
      /\ pc >= Len(asm)
      /\ recursive_labels # {}
      /\ ~(recursive_labels \subseteq recursed_labels))
     => phase' = "failed"]_vars

\* C22: when check_static_rules() fails, run() has executed nothing: the
\* counters, pc, the registers, the flags and memory are as parse left them
C22_StaticBeforeRun ==
  [][(phase = "parsed" /\ phase' = "failed") =>
       /\ execute_count' = 0
       /\ cycle_count' = 0
       /\ pc' = 0
       /\ reg' = [r \in RegNames |-> IF r = "sp" THEN STACK_SIZE - 1 ELSE 0]
       /\ ~n_flag' /\ ~z_flag'
       /\ mem' = mem
       /\ label_hit_counts' = label_hit_counts]_vars

\* the loop rule has refused a program that holds instructions
C22_Witness ==
  /\ phase = "failed"
  /\ err = "you cannot loop"
  /\ Len(asm) > 1
  /\ execute_count = 0

\* the loop of run() is left by exit: pc is one past len(asm)
Exited == phase = "running" /\ pc = Len(asm) + 1

\* the outcome of the recursion policy at the end of run()
PolicyFails ==
  \/ recursed_labels # {} /\ forbid_recursion
  \/ recursed_labels = {} /\ require_recursion
  \/ recursed_labels # {} /\ ~(recursive_labels \subseteq recursed_labels)

\* C23: svc 0 with x8 = 93 ends the loop at once: the next step is the
\* recursion policy, no instruction is executed and no hit count changes
C23_ExitHalts ==
  [][/\ Syscall(SYS_EXIT) => Exited'
     /\ Exited =>
          /\ execute_count' = execute_count
          /\ label_hit_counts' = label_hit_counts
          /\ UNCHANGED <<pc, reg, mem>>
          /\ phase' = IF PolicyFails THEN "failed" ELSE "done"]_vars

\* exit ran before the last line of the stream and the policy then failed
C23_Witness ==
  /\ phase = "failed"
  /\ pc = Len(asm) + 1
  /\ execute_count < Len(asm)
  /\ require_recursion

\* C24: an instruction is executed only with 0 <= sp <= STACK_SIZE and
\* (sp + 1) mod 16 = 0
C24_StackChecked ==
  [][execute_count' > execute_count =>
       /\ reg["sp"] >= 0
       /\ reg["sp"] <= STACK_SIZE
       /\ (reg["sp"] + 1) % 16 = 0]_vars

\* the loop has refused the line after  sub sp,sp,4096
C24_Witness ==
  /\ phase = "failed"
  /\ err = "stack overflow"
  /\ reg["sp"] < 0
  /\ execute_count = 1

\* C26: after reset() memory, the instruction stream and the symbol table
\* are empty, every register is 0, both flags are false, and pc, cycle_count
\* and execute_count are 0
C26_ResetClears ==
  phase = "reset" =>
    /\ mem.len = 0
    /\ DOMAIN mem.nz = {}
    /\ asm = <<>>
    /\ DOMAIN sym_table = {}
    /\ \A r \in RegNames : reg[r] = 0
    /\ ~n_flag /\ ~z_flag
    /\ pc = 0
    /\ cycle_count = 0
    /\ execute_count = 0

\* reset() was called after a run that had moved the break
C26_Witness ==
  /\ phase = "reset"
  /\ brk > original_break

\* C30: br lr with lr outside 0..len(asm)-1 fails and leaves pc, the
\* registers, the flags and memory as they were; with lr inside, execute()
\* sets pc to lr and run() steps to the line after it
C30_BrLrRange ==
  [][Executing("br") =>
       IF reg["lr"] \in 0..(Len(asm) - 1)
         THEN /\ phase' = "running"
              /\ pc' = reg["lr"] + 1
         ELSE /\ phase' = "failed"
              /\ UNCHANGED <<pc, reg, n_flag, z_flag, mem>>]_vars

\* br lr has failed with lr = len(asm) and the Z flag set
C30_Witness ==
  /\ phase = "failed"
  /\ pc < Len(asm)
  /\ asm[pc + 1] = BrLr
  /\ reg["lr"] = Len(asm)
  /\ z_flag

\* C28: a b.<cond> that completes adds one cycle of its own, one more when
\* current_cycle - flag_cycle <= 1, and one more when it is taken
C28_BranchCycles ==
  [][(Executing("bcond") /\ phase' = "running") =>
       cycle_count' = cycle_count + 1
                      + (IF cycle_count - flag_cycle <= 1 THEN 1 ELSE 0)
                      + (IF Predicate(Line) THEN 1 ELSE 0)]_vars

\* the registers an instruction line reads: its operands, the registers of
\* its address and, for a store, the stored register
Reads(l) ==
  ({l.rn, l.rm} \cup (IF l.op \in StoreOps THEN {l.rd} ELSE {})) \ {""}

\* C29: an instruction that reads ld_dst while current_cycle - ld_cycle <= 2
\* takes at least 2 cycles
C29_LoadUse ==
  [][(/\ Fetching /\ StackOk /\ ~IsLabelLine(Line)
      /\ ld_dst \in Reads(Line)
      /\ cycle_count - ld_cycle <= 2
      /\ phase' = "running")
     => cycle_count' >= cycle_count + 2]_vars

\* C25: the second run, started from another hazard state, leaves after each
\* of its steps the pc, registers, flags, memory and execute_count the first
\* run left after the same step, and ends after as many steps
C25_HazardObservational ==
  replay.pass = 2 =>
    LET n == Len(replay.trace)
    IN /\ n <= Len(replay.first)
       /\ n > 0 => replay.trace[n] = replay.first[n]
       /\ phase \in {"done", "failed"} => n = Len(replay.first)

\* the second run of a program with cbz or cbnz has ended, from a hazard state
\* the first run did not start from
C25_Witness ==
  /\ replay.pass = 2
  /\ phase = "done"
  /\ \E i \in 1..Len(asm) : asm[i].op \in CbOps
  /\ ld_cycle > 3
  /\ execute_count > 2

\* C27: bl to a linked label sets lr to the pc of the bl, calls the host
\* callable once, succeeds whether or not the stream declares the label, and
\* goes on at the line after the bl
C27_LinkedCall ==
  [][(Executing("bl") /\ Line.lab \in linked_labels) =>
       /\ phase' = "running"
       /\ reg'["lr"] = pc
       /\ host_calls' = Append(host_calls, Line.lab)
       /\ pc' = pc + 1]_vars

----------------------------------------------------------------------------
(* C31: every line between a lone /* line and the matching lone */ line is *)
(* skipped by parse(): it is not appended to the instruction stream, it    *)
(* adds nothing to memory or to the symbol table, and it does not switch   *)
(* the section mode, even if it holds .data, .bss or main:.  So parse()    *)
(* leaves what it leaves for the file without its block comments.          *)

RECURSIVE Uncommented(_, _)
Uncommented(ls, inside) ==
  IF ls = <<>> THEN <<>>
  ELSE IF Head(ls).text = "/*" THEN Uncommented(Tail(ls), TRUE)
  ELSE IF Head(ls).text = "*/" THEN Uncommented(Tail(ls), FALSE)
  ELSE IF inside THEN Uncommented(Tail(ls), TRUE)
  ELSE <<Head(ls)>> \o Uncommented(Tail(ls), FALSE)

Commented == \E i \in 1..Len(lines) : lines[i].text = "/*"

C31_CommentSkipped ==
  (phase = "parsed" /\ Commented) =>
    LET bare == Read(Uncommented(lines, FALSE))
        st == parse(bare.dirs)
    IN /\ asm = bare.asm
       /\ mem = st.mem
       /\ sym_table = st.sym_table
       /\ original_break = st.original_break

----------------------------------------------------------------------------
(* C32: in every state reached by parse() and then brk syscalls,           *)
(* original_break <= brk <= len(mem); and no brk syscall changes           *)
(* original_break or a byte of mem[0:original_break].                      *)

SamePrefix(m1, m2, n) ==
  \A a \in DOMAIN m1.nz \cup DOMAIN m2.nz :
    a < n => MemByte(m1, a) = MemByte(m2, a)

C32_BreakBounds ==
  /\ [](phase \in {"parsed", "running", "done", "failed"} =>
          /\ original_break <= brk
          /\ brk <= mem.len)
  /\ [][Syscall(SYS_BRK) =>
          /\ original_break' = original_break
          /\ mem'.len >= original_break
          /\ SamePrefix(mem, mem', original_break)]_vars

\* the break raised, then lowered below the data, then put back at its start
C32_Witness ==
  /\ Done({"svc"})
  /\ reg["x8"] = SYS_BRK
  /\ Len(asm) = 1 + 2 * BrkCalls
  /\ asm[2] = MovI("x0", original_break + 1)
  /\ asm[4] = MovI("x0", original_break - 1)
  /\ asm[6] = MovI("x0", original_break)
  /\ brk = original_break
  /\ mem.len = original_break
  /\ \E a \in DOMAIN mem.nz : a < original_break

----------------------------------------------------------------------------
(* C33: a store whose address passes the bounds check never fails because  *)
(* of the value stored: stur, sturw, sturh and sturb write the low 8, 4, 2 *)
(* and 1 bytes of the 64-bit two's complement of the register, negative    *)
(* values included, and execution goes on.                                 *)

TwosComplement(v, W) == [i \in 1..W |-> ShiftRight8(v, i - 1) % 256]

C33_StoreAnyValue ==
  [][(Executing("store") /\ ~OutOfBounds(Line)) =>
       /\ phase' = "running"
       /\ mem' = SliceAssign(mem, Addr(Line), Addr(Line) + Width(Line.op),
                             TwosComplement(reg[Line.rd], Width(Line.op)))]_vars

----------------------------------------------------------------------------
(* C34: once check_static_rules() has passed, every b, b.<cond>, cbz and   *)
(* cbnz that is taken finds its target label in the instruction stream:    *)
(* execution goes on at the line after the label, also when the target is  *)
(* registered as a linked label only.                                      *)

Taken ==
  \/ Executing("b")
  \/ (Executing("bcond") \/ Executing("cb")) /\ Predicate(Line)

C34_TargetFound ==
  [][Taken =>
       /\ phase' = "running"
       /\ pc' > 0
       /\ asm[pc'] = Label(Line.lab)]_vars

----------------------------------------------------------------------------
(* C35: a label is added to the recursed labels only when its procedure is *)
(* entered again while an earlier activation of it is live.  When the      *)
(* first instruction a run executes is a bl, no activation is live: the    *)
(* bl at index 0, met with lr still 0, adds no label, and a run that ends  *)
(* without any label added passes under forbid_recursion.                  *)

FirstIsCall ==
  /\ Fetching
  /\ execute_count = 0
  /\ ~IsLabelLine(Line)
  /\ Line.op = "bl"

C35_RecursionNeedsLiveCall ==
  [][/\ FirstIsCall => recursed_labels' = {}
     /\ (phase = "running" /\ pc >= Len(asm) /\ recursed_labels = {}
          /\ ~require_recursion)
        => phase' # "failed"]_vars

----------------------------------------------------------------------------
(* C36: after reset() every static-rule setting is back at its default:    *)
(* forbidden_instructions and recursive_labels are empty, and              *)
(* forbid_recursion, require_recursion, forbid_loops and check_dead_code   *)
(* are false.                                                              *)

C36_ResetRules ==
  phase = "reset" =>
    /\ forbidden_instructions = {}
    /\ recursive_labels = {}
    /\ ~forbid_recursion
    /\ ~require_recursion
    /\ ~forbid_loops
    /\ ~check_dead_code

----------------------------------------------------------------------------
(* C37: when a load or a store fails its bounds check, the registers, the  *)
(* flags, pc, the contents of memory and len(mem) are as they were before  *)
(* the instruction.                                                        *)

C37_BoundsFailureFrame ==
  [][(Accessing /\ OutOfBounds(Line)) =>
       /\ phase' = "failed"
       /\ UNCHANGED <<reg, n_flag, z_flag, pc, mem>>]_vars

\* a store above the window has failed, with data in memory and a source
\* register that is not zero
C37_Witness ==
  /\ phase = "failed"
  /\ err = "out of bounds memory access"
  /\ pc < Len(asm)
  /\ asm[pc + 1].op \in StoreOps
  /\ reg[asm[pc + 1].rd] # 0
  /\ reg[asm[pc + 1].rn] > reg["sp"]
  /\ \E a \in DOMAIN mem.nz : a >= STACK_SIZE

----------------------------------------------------------------------------
(* C38: asr rd,rn,rm is accepted: it sets rd to rn shifted right            *)
(* arithmetically by the value of rm, and execution goes on.               *)

C38_AsrRegister ==
  [][(/\ Fetching
      /\ StackOk
      /\ ~IsLabelLine(Line)
      /\ Line.op = "asr"
      /\ Line.form = "reg")
     => /\ phase' = "running"
        /\ reg'[Line.rd] = reg[Line.rn] \div Pow2(reg[Line.rm])]_vars

----------------------------------------------------------------------------
(* C39: with forbid_loops set, check_static_rules() raises no loop error   *)
(* and fails nowhere in its loop check for a program without a backward    *)
(* b, b.<cond>, cbz or cbnz: br lr, bl and label lines that begin with b   *)
(* or cb do not make it fail.                                              *)

NoBackBranch == \A i \in 1..Len(asm) : ~BackBranch(i)

C39_LoopCheckAccepts ==
  [][(phase = "parsed" /\ phase' # "reset" /\ forbid_loops /\ NoBackBranch)
       => err' \notin {"you cannot loop", "ValueError"}]_vars

====
